---- MODULE Spec2Model ----
(***************************************************************************)
(* Utilities/build-script-helper.py and build-script.py of swift-driver as *)
(* state machines.                                                         *)
(*                                                                         *)
(* An invocation of the script is modelled: main() resolves the            *)
(* cross-compile hosts, handle_invocation() computes the target list and   *)
(* dispatches on the action, and every external tool the script then runs  *)
(* (cmake, ninja, install_name_tool, lipo, rsync, the package tool) and    *)
(* every file-system call (rename, rmtree, copytree) is one step.  Spec is *)
(* one invocation on a fresh build directory; Reinvocation lets the        *)
(* process be terminated between two steps and the same command line be    *)
(* run again on the file system the earlier invocation left.  BuildScript *)
(* is one invocation of build-script.py (at the end of the module).        *)
(*                                                                         *)
(* A Python string is a sequence of tokens, '+' is \o, os.path.join puts a *)
(* "/" token between its arguments, and 'sub in s' is a search for the     *)
(* token sequence sub inside s.  The tokens are cut so that every          *)
(* substring the script searches for is a whole number of tokens.          *)
(***************************************************************************)
EXTENDS Integers, Sequences, FiniteSets, TLC

VARIABLES
    argv,     \* the parsed command line and the toolchain's target info (read-only)
    args,     \* the argparse namespace as main() rewrites it
    targets,  \* handle_invocation's 'targets' list
    env,      \* os.environ entries set by handle_invocation
    pc,       \* "main", "handle_invocation", "run" or "exited"
    ip,       \* under "run": the index of the next step of the invocation's plan
    exit,     \* Running, or the exit status of the process
    report,   \* what the process printed when it stopped
    returncode, \* the exit status of the last external tool the script ran
    fs,       \* the file system: path -> file content
    earlier,  \* the invocations of this command line that have ended: how, and
              \* the file system each left
    calls     \* build-script.py: the commands run so far, each with its exit status

vars == <<argv, args, targets, env, pc, ip, exit, report, returncode, fs, earlier, calls>>

----------------------------------------------------------------------------
(* Strings and paths *)

Range(s) == {s[i] : i \in 1..Len(s)}

\* 'sub in s' for strings
HasSub(s, sub) ==
    \E i \in 1..(Len(s) - Len(sub) + 1) : SubSeq(s, i, i + Len(sub) - 1) = sub

\* s.startswith(pre)
StartsWith(s, pre) == Len(pre) <= Len(s) /\ SubSeq(s, 1, Len(pre)) = pre

\* os.path.join(a, b) for a relative b
Join(a, b) == a \o <<"/">> \o b

RECURSIVE JoinAll(_)
JoinAll(parts) ==
    IF Len(parts) = 1 THEN parts[1]
    ELSE Join(JoinAll(SubSeq(parts, 1, Len(parts) - 1)), parts[Len(parts)])

\* index of the last "/" of a path, 0 when it has none
LastSlash(p) ==
    LET idx == {i \in 1..Len(p) : p[i] = "/"}
    IN  IF idx = {} THEN 0 ELSE CHOOSE i \in idx : \A j \in idx : j <= i

Basename(p) == SubSeq(p, LastSlash(p) + 1, Len(p))
Dirname(p)  == SubSeq(p, 1, LastSlash(p) - 1)

\* path p lies under directory d
Under(p, d) == StartsWith(p, d \o <<"/">>)

\* target.split('-')[0]
Arch(target) == <<target[1]>>

None == <<>>

----------------------------------------------------------------------------
(* Module-level constants of the script *)

shared_lib_ext == <<".dylib">>
static_lib_ext == <<".a">>
macos_deployment_target == <<"10.15">>

executables_to_install ==
    << <<"swift-driver">>, <<"swift-help">>, <<"swift-build-sdk-interfaces">> >>

----------------------------------------------------------------------------
(* The inputs of one invocation *)

MaxPrefixes == 2

X86Mac   == <<"x86_64", "-apple", "-macosx">>
Arm64Mac == <<"arm64", "-apple", "-macosx">>
X86Linux == <<"x86_64", "-unknown", "-linux", "-gnu">>

\* what 'swiftc -print-target-info' answers
TargetInfos ==
    { [triple |-> X86Mac \o <<"13.0">>,   unversionedTriple |-> X86Mac],
      [triple |-> Arm64Mac \o <<"13.0">>, unversionedTriple |-> Arm64Mac],
      [triple |-> X86Linux,               unversionedTriple |-> X86Linux] }

HostArm64   == <<"macosx", "-arm64">>
HostX86     == <<"macosx", "-x86_64">>
HostAndroid == <<"android", "-", "aarch64">>
HostLinux   == <<"linux", "-aarch64">>

\* values of --cross-compile-hosts
HostLists ==
    { <<>>, <<HostArm64>>, <<HostX86>>, <<HostAndroid>>, <<HostLinux>>,
      <<HostAndroid, HostArm64>>, <<HostAndroid, HostAndroid>> }

Prefix(i) == <<"/prefix", ToString(i)>>

\* values of --prefix: no prefix, or the first n of the prefixes
PrefixLists == { [i \in 1..n |-> Prefix(i)] : n \in 0..MaxPrefixes }

Actions == {"clean", "build", "test", "install"}

Configurations == { <<"debug">>, <<"release">> }

\* the libraries whose build-tree lib directory a freshly linked binary may
\* name in an LC_RPATH
Packages == << <<"llbuild">>, <<"swift-tools-support-core">>,
              <<"swift-argument-parser">>, <<"swift-driver">> >>

PackagePath == <<"/src", "/", "swift-driver">>
BuildPath   == <<"/build">>
Toolchain   == <<"/toolchain">>
SDKPath     == <<"/sdk">>
CMakeBin    == <<"cmake">>
NinjaBin    == <<"ninja">>

\* the linker's choices: no build-tree entry, llbuild's alone, those of the
\* driver and the two Swift packages, or all four
LinkedSets ==
    { {}, { <<"llbuild">> },
      { <<"swift-driver">>, <<"swift-tools-support-core">>, <<"swift-argument-parser">> },
      Range(Packages) }

ArgSpace ==
    [ action               : Actions,
      cross_compile_hosts  : HostLists,
      local_compiler_build : BOOLEAN,
      install_prefixes     : PrefixLists,
      configuration        : Configurations,
      enable_asan          : BOOLEAN,
      stale_include        : BOOLEAN,
      target_info          : TargetInfos,
      fresh_rpaths         : LinkedSets ]

\* the namespace parse_args returns (line 622), with the toolchain's answer to
\* '-print-target-info' (line 567)
parse_args(a) ==
    [ action |-> a.action,
      build_target |-> None,
      sysroot |-> None,
      target_info |-> a.target_info,
      cross_compile_hosts |-> a.cross_compile_hosts,
      local_compiler_build |-> a.local_compiler_build,
      configuration |-> a.configuration,
      enable_asan |-> a.enable_asan,
      install_prefixes |-> a.install_prefixes ]

\* exit statuses with which an external tool may fail
ToolFailures == {1, 2}

----------------------------------------------------------------------------
(* How the interpreter stops *)

Running == -1

\* the call returned and the script goes on
Proceed == [exit |-> Running, report |-> <<>>]

\* error(message): prints the message and raises SystemExit(1)
error(message) == [exit |-> 1, report |-> <<"error">> \o message]

\* an exception nobody catches: a traceback on stderr and exit status 1
Uncaught(exception) == [exit |-> 1, report |-> <<"Traceback", exception>>]

\* sys.exit(code)
SysExit(code, printed) == [exit |-> code % 256, report |-> printed]

----------------------------------------------------------------------------
(* main() *)

get_build_target(target_info) ==
    IF HasSub(target_info.unversionedTriple, <<"-apple", "-macosx">>)
    THEN target_info.unversionedTriple
    ELSE target_info.triple

\* lines 636-643: the cross-compile hosts main() leaves in args, or the way
\* the interpreter stops
ResolveHosts(build_target, hosts) ==
    IF build_target = X86Mac /\ HostArm64 \in Range(hosts)
    THEN [ok |-> TRUE,
          hosts |-> << build_target \o macos_deployment_target,
                       Arm64Mac \o macos_deployment_target >>]
    ELSE IF build_target = Arm64Mac /\ HostX86 \in Range(hosts)
    THEN [ok |-> TRUE,
          hosts |-> << build_target \o macos_deployment_target,
                       X86Mac \o macos_deployment_target >>]
    ELSE IF hosts # <<>> /\ HasSub(hosts[1], <<"android", "-">>)
    THEN [ok |-> TRUE, hosts |-> hosts]
    ELSE IF hosts # <<>>
    \* the message is built from the undefined name cross_compile_hosts
    THEN [ok |-> FALSE, stop |-> Uncaught("NameError")]
    ELSE [ok |-> TRUE, hosts |-> hosts]

\* lines 645-646
CheckLocalCompilerBuild(hosts, local_compiler_build) ==
    IF hosts # <<>> /\ local_compiler_build
    THEN [ok |-> FALSE,
          stop |-> error(<<"Cross-compilation is currently not supported ",
                           "for the local compiler installation">>)]
    ELSE [ok |-> TRUE]

Stop(how) ==
    /\ exit' = how.exit
    /\ report' = how.report
    /\ pc' = "exited"
    /\ UNCHANGED ip

\* lines 622-659: the namespace main() hands to handle_invocation, or the way
\* the interpreter stops before that
main_outcome(parsed) ==
    LET build_target == get_build_target(parsed.target_info)
        sysroot == IF HasSub(build_target, <<"-apple", "-macosx">>)
                   THEN SDKPath ELSE None
        r == ResolveHosts(build_target, parsed.cross_compile_hosts)
        l == CheckLocalCompilerBuild(r.hosts, parsed.local_compiler_build)
    IN  IF ~r.ok THEN r
        ELSE IF ~l.ok THEN l
        ELSE [ok |-> TRUE,
              args |-> [parsed EXCEPT
                           !.build_target = build_target,
                           !.sysroot = sysroot,
                           !.cross_compile_hosts = r.hosts,
                           !.install_prefixes =
                               IF @ = <<>> THEN <<Toolchain>> ELSE @]]

main ==
    /\ pc = "main"
    /\ LET m == main_outcome(args)
       IN  IF m.ok
           THEN /\ args' = m.args
                /\ pc' = "handle_invocation"
                /\ UNCHANGED <<ip, exit, report>>
           ELSE /\ Stop(m.stop)
                /\ UNCHANGED args
    /\ UNCHANGED <<argv, targets, env, returncode, fs, earlier, calls>>

----------------------------------------------------------------------------
(* The steps of an invocation.                                             *)
(*                                                                         *)
(* The script's control flow depends on its arguments alone: a function of *)
(* the script is the sequence of external calls it makes, in order, each   *)
(* call a record.  A failing call stops the run where the wrapper of that  *)
(* call says so (see the actions), so the calls made so far are always a   *)
(* prefix of the sequence.                                                 *)

RECURSIVE Flatten(_)
Flatten(ss) == IF Len(ss) = 0 THEN <<>> ELSE Head(ss) \o Flatten(Tail(ss))

install_binary(file, source_dir, install_dir) ==
    << [op |-> "rsync", src |-> Join(source_dir, file), dst |-> install_dir] >>

delete_rpath_call(rpath, binary) ==
    [op |-> "delete_rpath", rpath |-> rpath, binary |-> binary]

add_rpath_call(rpath, binary) ==
    [op |-> "add_rpath", rpath |-> rpath, binary |-> binary]

InstallRpath == <<"@executable_path/../lib/swift/macosx">>

\* lines 515-516: the list cmake_build was handed, as the call leaves it
cmake_build_swift_flags(a, swift_flags) ==
    IF a.sysroot # None
    THEN Append(swift_flags, <<"-sdk ">> \o a.sysroot)
    ELSE swift_flags

cmake_build(a, swiftc_exec, cmake_args, swift_flags, source_path, build_dir, ninja_target) ==
    LET flags == cmake_build_swift_flags(a, swift_flags)
    IN  << [op |-> "cmake", cwd |-> build_dir, source_path |-> source_path,
            swift_flags |-> flags, cmake_args |-> cmake_args,
            swiftc |-> swiftc_exec],
           [op |-> "ninja", cwd |-> build_dir, ninja_target |-> ninja_target,
            \* what the configure step left in build_dir's CMake cache
            source_path |-> source_path, swift_flags |-> flags] >>

build_llbuild_using_cmake(a, target, swiftc_exec, build_dir, base_cmake_flags, swift_flags) ==
    LET llbuild_source_dir == Join(Dirname(PackagePath), <<"llbuild">>)
        llbuild_build_dir == Join(build_dir, <<"llbuild">>)
        llbuild_api_dir == Join(llbuild_build_dir, <<".cmake/api/v1/query">>)
        flags == << <<"-DCMAKE_C_COMPILER:=clang">>,
                    <<"-DCMAKE_CXX_COMPILER:=clang++">>,
                    <<"-DCMAKE_CXX_FLAGS=-target ">> \o target,
                    <<"-DLLBUILD_SUPPORT_BINDINGS:=Swift">> >>
        sqlite == IF a.sysroot = None THEN <<>>
                  ELSE << <<"-DSQLite3_INCLUDE_DIR=">> \o a.sysroot
                              \o <<"/usr/include">> >>
                       \o (IF HasSub(a.build_target, <<"-apple", "-macosx">>)
                           THEN << <<"-DSQLite3_LIBRARY=">> \o a.sysroot
                                       \o <<"/usr/lib/libsqlite3.tbd">> >>
                           ELSE <<>>)
    IN  << [op |-> "touch", path |-> Join(llbuild_api_dir, <<"codemodel-v2">>)] >>
        \o cmake_build(a, swiftc_exec, base_cmake_flags \o flags \o sqlite,
                       swift_flags, llbuild_source_dir, llbuild_build_dir,
                       <<"products/all">>)

build_tsc_using_cmake(a, target, swiftc_exec, build_dir, base_cmake_flags, swift_flags) ==
    LET tsc_source_dir == Join(Dirname(PackagePath), <<"swift-tools-support-core">>)
        tsc_build_dir == Join(build_dir, <<"swift-tools-support-core">>)
    IN  cmake_build(a, swiftc_exec, base_cmake_flags, swift_flags,
                    tsc_source_dir, tsc_build_dir, None)

build_argument_parser_using_cmake(a, target, swiftc_exec, build_dir, base_cmake_flags, swift_flags) ==
    LET parser_source_dir == Join(Dirname(PackagePath), <<"swift-argument-parser">>)
        parser_build_dir == Join(build_dir, <<"swift-argument-parser">>)
        custom_flags == << <<"-DBUILD_TESTING=NO">>, <<"-DBUILD_EXAMPLES=NO">> >>
    IN  cmake_build(a, swiftc_exec, base_cmake_flags \o custom_flags, swift_flags,
                    parser_source_dir, parser_build_dir, None)

build_swift_driver_using_cmake(a, target, swiftc_exec, build_dir, base_cmake_flags, swift_flags) ==
    LET dependencies_dir == Join(build_dir, <<"dependencies">>)
        flags == << <<"-DLLBuild_DIR=">>
                        \o Join(Join(dependencies_dir, <<"llbuild">>),
                                <<"cmake/modules">>),
                    <<"-DTSC_DIR=">>
                        \o Join(Join(dependencies_dir, <<"swift-tools-support-core">>),
                                <<"cmake/modules">>),
                    <<"-DArgumentParser_DIR=">>
                        \o Join(Join(dependencies_dir, <<"swift-argument-parser">>),
                                <<"cmake/modules">>) >>
    IN  cmake_build(a, swiftc_exec, base_cmake_flags \o flags, swift_flags,
                    PackagePath, build_dir, None)

\* a build that puts every target into the build directory itself
cmake_target_dir_shared(a, build_dir, target) == build_dir

\* lines 425-433: where the builds of one target put their output
cmake_target_dir(a, build_dir, target) ==
    IF a.local_compiler_build THEN build_dir ELSE Join(build_dir, target)

\* a chain that builds the driver ahead of the packages it depends on
build_target_chain_driver_first(a, target, swiftc_exec, driver_dir, dependencies_dir, base_cmake_flags, swift_flags) ==
    build_swift_driver_using_cmake(a, target, swiftc_exec, driver_dir,
                                   base_cmake_flags, swift_flags)
    \o build_llbuild_using_cmake(a, target, swiftc_exec, dependencies_dir,
                                 base_cmake_flags, swift_flags)
    \o build_tsc_using_cmake(a, target, swiftc_exec, dependencies_dir,
                             base_cmake_flags, swift_flags)
    \o build_argument_parser_using_cmake(a, target, swiftc_exec, dependencies_dir,
                                         base_cmake_flags, swift_flags)

\* a build function that hands cmake_build the list of its caller
callers_swift_flags_aliased(a, swift_flags) ==
    cmake_build_swift_flags(a, swift_flags)

\* lines 466, 481, 491, 502: each build function hands cmake_build a copy of
\* the list (swift_flags[:]); this is the list of its caller after the call
callers_swift_flags(a, swift_flags) == swift_flags

\* lines 435-447: the builds of one target, in dependency order; one list
\* object goes to the four build functions one after the other
build_target_chain(a, target, swiftc_exec, driver_dir, dependencies_dir, base_cmake_flags, swift_flags) ==
    LET after_llbuild == callers_swift_flags(a, swift_flags)
        after_tsc == callers_swift_flags(a, after_llbuild)
        after_parser == callers_swift_flags(a, after_tsc)
    IN  build_llbuild_using_cmake(a, target, swiftc_exec, dependencies_dir,
                                  base_cmake_flags, swift_flags)
        \o build_tsc_using_cmake(a, target, swiftc_exec, dependencies_dir,
                                 base_cmake_flags, after_llbuild)
        \o build_argument_parser_using_cmake(a, target, swiftc_exec, dependencies_dir,
                                             base_cmake_flags, after_tsc)
        \o build_swift_driver_using_cmake(a, target, swiftc_exec, driver_dir,
                                          base_cmake_flags, after_parser)

\* a loop body that appends to the base list itself
target_swift_flags_aliased(base_swift_flags, target) ==
    LET appended == Append(base_swift_flags, <<"-target ">> \o target)
    IN  [swift_flags |-> appended, base_swift_flags |-> appended]

\* lines 418-419: the list of one target is a copy of the base list with the
\* target appended; the base list is as it was
target_swift_flags(base_swift_flags, target) ==
    [swift_flags |-> Append(base_swift_flags, <<"-target ">> \o target),
     base_swift_flags |-> base_swift_flags]

\* line 416: the base list as the i-th pass of the loop over the targets
\* finds it
RECURSIVE BaseSwiftFlagsAt(_, _, _)
BaseSwiftFlagsAt(base_swift_flags, tgts, i) ==
    IF i = 1 THEN base_swift_flags
    ELSE target_swift_flags(BaseSwiftFlagsAt(base_swift_flags, tgts, i - 1),
                            tgts[i - 1]).base_swift_flags

build_using_cmake(a, toolchain_bin, build_dir, tgts) ==
    LET swiftc_exec == Join(toolchain_bin, <<"swiftc">>)
        base_swift_flags ==
            (IF a.configuration = <<"debug">>
             THEN << <<"-Onone">>, <<"-DDEBUG">> >> ELSE <<>>)
            \o (IF a.enable_asan
                THEN << <<"-sanitize=address">>, <<"-Xclang-linker">>,
                        <<"-fsanitize=address">> >>
                ELSE <<>>)
            \o << <<"-module-cache-path ">> \o Join(build_dir, <<"module-cache">>) >>
        one(base, target) ==
            LET swift_flags == target_swift_flags(base, target).swift_flags
                base_cmake_flags ==
                    IF HasSub(a.build_target, <<"-apple", "-macosx">>)
                    THEN << <<"-DCMAKE_OSX_DEPLOYMENT_TARGET=">>
                                \o macos_deployment_target,
                            <<"-DCMAKE_OSX_ARCHITECTURES=">> \o Arch(target) >>
                    ELSE <<>>
                driver_dir == Join(cmake_target_dir(a, build_dir, target),
                                   a.configuration)
                dependencies_dir == Join(driver_dir, <<"dependencies">>)
            IN  build_target_chain(a, target, swiftc_exec, driver_dir,
                                   dependencies_dir, base_cmake_flags, swift_flags)
    IN  Flatten([i \in 1..Len(tgts) |->
                    one(BaseSwiftFlagsAt(base_swift_flags, tgts, i), tgts[i])])

lipo_call(inputs, output) == [op |-> "lipo", inputs |-> inputs, output |-> output]

\* a fix-up applied to the merged executable in the staging directory
fixup_executable_universal(a, build_dir, exe, target) ==
    LET exe_bin_path == JoinAll(<<build_dir,
                                  <<"universal-apple-macos">> \o macos_deployment_target,
                                  <<"bin">>, exe>>)
        driver_lib_dir_path == JoinAll(<<build_dir, target,
                                         a.configuration, <<"lib">> >>)
    IN  << delete_rpath_call(driver_lib_dir_path, exe_bin_path),
           add_rpath_call(InstallRpath, exe_bin_path) >>

\* lines 261-275: the rpath fix-up of one executable of one target
fixup_executable(a, build_dir, exe, target) ==
    LET exe_bin_path == JoinAll(<<build_dir, target, a.configuration,
                                  <<"bin">>, exe>>)
        driver_lib_dir_path == JoinAll(<<build_dir, target,
                                         a.configuration, <<"lib">> >>)
        libs == << <<"swift-tools-support-core">>, <<"swift-argument-parser">> >>
        lib_dir_path(lib) == JoinAll(<<build_dir, target, a.configuration,
                                       <<"dependencies">>, lib, <<"lib">> >>)
    IN  << delete_rpath_call(driver_lib_dir_path, exe_bin_path) >>
        \o [i \in 1..Len(libs) |->
               delete_rpath_call(lib_dir_path(libs[i]), exe_bin_path)]
        \o << add_rpath_call(InstallRpath, exe_bin_path) >>

\* a merge that writes straight to the installed file of the first prefix
merge_executable_in_place(a, build_dir, universal_bin_dir, exe, tgts) ==
    LET inputs == [i \in 1..Len(tgts) |->
                      JoinAll(<<build_dir, tgts[i], a.configuration,
                                <<"bin">>, exe>>)]
    IN  << lipo_call(inputs, JoinAll(<<a.install_prefixes[1], <<"bin">>, exe>>)) >>

\* lines 277-286: the merge of one executable
merge_executable(a, build_dir, universal_bin_dir, exe, tgts) ==
    LET output_bin_path == Join(universal_bin_dir, exe)
        inputs == [i \in 1..Len(tgts) |->
                      JoinAll(<<build_dir, tgts[i], a.configuration,
                                <<"bin">>, exe>>)]
    IN  << lipo_call(inputs, output_bin_path) >>

\* a loop body that merges before it has fixed the rpaths up
install_executable_merge_first(a, build_dir, universal_bin_dir, toolchain_bin_dir, tgts, exe) ==
    merge_executable(a, build_dir, universal_bin_dir, exe, tgts)
    \o Flatten([i \in 1..Len(tgts) |-> fixup_executable(a, build_dir, exe, tgts[i])])
    \o install_binary(exe, universal_bin_dir, toolchain_bin_dir)

\* lines 259-287: the body of the loop over executables_to_install
install_executable(a, build_dir, universal_bin_dir, toolchain_bin_dir, tgts, exe) ==
    Flatten([i \in 1..Len(tgts) |-> fixup_executable(a, build_dir, exe, tgts[i])])
    \o merge_executable(a, build_dir, universal_bin_dir, exe, tgts)
    \o install_binary(exe, universal_bin_dir, toolchain_bin_dir)

install_executables(a, build_dir, universal_bin_dir, toolchain_bin_dir, tgts) ==
    Flatten([i \in 1..Len(executables_to_install) |->
                install_executable(a, build_dir, universal_bin_dir,
                                   toolchain_bin_dir, tgts,
                                   executables_to_install[i])])

\* a library copied into the prefix before it is merged
install_library_copy_first(a, build_dir, package_subpath, lib_name, lib_ext, universal_lib_dir, toolchain_lib_dir, package_name, tgts) ==
    LET lib_file == lib_name \o lib_ext
        inputs == [i \in 1..Len(tgts) |->
                      JoinAll(<<build_dir, tgts[i], package_subpath,
                                <<"lib">>, lib_file>>)]
    IN  install_binary(lib_file, universal_lib_dir, toolchain_lib_dir)
        \o << lipo_call(inputs, Join(universal_lib_dir, lib_file)) >>

\* a merge that reads the first target's library alone
install_library_first_target(a, build_dir, package_subpath, lib_name, lib_ext, universal_lib_dir, toolchain_lib_dir, package_name, tgts) ==
    LET lib_file == lib_name \o lib_ext
    IN  << lipo_call(<< JoinAll(<<build_dir, tgts[1], package_subpath,
                                  <<"lib">>, lib_file>>) >>,
                     Join(universal_lib_dir, lib_file)) >>
        \o install_binary(lib_file, universal_lib_dir, toolchain_lib_dir)

install_library(a, build_dir, package_subpath, lib_name, lib_ext, universal_lib_dir, toolchain_lib_dir, package_name, tgts) ==
    LET lib_file == lib_name \o lib_ext
        output_dylib_path == Join(universal_lib_dir, lib_file)
        inputs == [i \in 1..Len(tgts) |->
                      JoinAll(<<build_dir, tgts[i], package_subpath,
                                <<"lib">>, lib_file>>)]
    IN  << lipo_call(inputs, output_dylib_path) >>
        \o install_binary(lib_file, universal_lib_dir, toolchain_lib_dir)

install_libraries(a, build_dir, universal_lib_dir, toolchain_lib_dir, tgts) ==
    LET \* Fixup the SwiftDriver rpath for libSwiftDriver and libSwiftDriverExecution
        own == << <<"libSwiftDriver">>, <<"libSwiftDriverExecution">> >>
        fix_own(lib, target) ==
            << delete_rpath_call(
                   JoinAll(<<build_dir, target, a.configuration, <<"lib">> >>),
                   JoinAll(<<build_dir, target, a.configuration, <<"lib">>,
                             lib \o shared_lib_ext>>)) >>
        \* Fixup the TSC and llbuild rpaths
        driver_names == << <<"libSwiftDriver">>, <<"libSwiftOptions">>,
                           <<"libSwiftDriverExecution">> >>
        tsc_names == << <<"libTSCBasic">>, <<"libTSCUtility">> >>
        driver_libs == [i \in 1..Len(driver_names) |->
                           Join(<<"lib">>, driver_names[i])]
        tsc_libs == [i \in 1..Len(tsc_names) |->
                        JoinAll(<<<<"dependencies">>, <<"swift-tools-support-core">>,
                                  <<"lib">>, tsc_names[i]>>)]
        all_libs == driver_libs \o tsc_libs
        deps == << <<"swift-tools-support-core">>, <<"llbuild">> >>
        fix_deps(lib, target) ==
            LET lib_path == JoinAll(<<build_dir, target, a.configuration,
                                      lib \o shared_lib_ext>>)
            IN  [i \in 1..Len(deps) |->
                    delete_rpath_call(
                        JoinAll(<<build_dir, target, a.configuration,
                                  <<"dependencies">>, deps[i], <<"lib">> >>),
                        lib_path)]
        over_targets(f(_, _), lib) ==
            Flatten([i \in 1..Len(tgts) |-> f(lib, tgts[i])])
        lib(package_subpath, lib_name, lib_ext, package_name) ==
            install_library(a, build_dir, package_subpath, lib_name, lib_ext,
                            universal_lib_dir, toolchain_lib_dir, package_name, tgts)
        deps_subpath(package) ==
            JoinAll(<<a.configuration, <<"dependencies">>, package>>)
    IN  Flatten([i \in 1..Len(own) |-> over_targets(fix_own, own[i])])
        \o Flatten([i \in 1..Len(all_libs) |-> over_targets(fix_deps, all_libs[i])])
        \o Flatten([i \in 1..Len(driver_names) |->
                       lib(a.configuration, driver_names[i], shared_lib_ext,
                           <<"swift-driver">>)])
        \o Flatten([i \in 1..Len(tsc_names) |->
                       lib(deps_subpath(<<"swift-tools-support-core">>), tsc_names[i],
                           shared_lib_ext, <<"swift-tools-support-core">>)])
        \o lib(deps_subpath(<<"swift-argument-parser">>), <<"libArgumentParser">>,
               shared_lib_ext, <<"swift-argument-parser">>)
        \o lib(deps_subpath(<<"swift-argument-parser">>),
               <<"libArgumentParserToolInfo">>, static_lib_ext,
               <<"swift-argument-parser">>)
        \o lib(deps_subpath(<<"llbuild">>), <<"libllbuildSwift">>, shared_lib_ext,
               <<"llbuild">>)

module_fileexts == << <<".swiftmodule">>, <<".swiftdoc">> >>

\* an install that takes every target's module file from the first target
install_module_first_target(a, build_dir, package_subpath, toolchain_lib, module_name, tgts) ==
    LET toolchain_module_dir == Join(toolchain_lib, module_name \o <<".swiftmodule">>)
        one(target, fileext) ==
            LET swift_dir == JoinAll(<<build_dir, tgts[1], package_subpath>>)
            IN  install_binary(module_name \o fileext, swift_dir, toolchain_module_dir)
                \o << [op |-> "rename",
                       src |-> Join(toolchain_module_dir, module_name \o fileext),
                       dst |-> Join(toolchain_module_dir, target \o fileext)] >>
    IN  Flatten([i \in 1..Len(tgts) |->
                    Flatten([j \in 1..Len(module_fileexts) |->
                                one(tgts[i], module_fileexts[j])])])

\* an install that leaves every target's file under the generic module name
install_module_unqualified(a, build_dir, package_subpath, toolchain_lib, module_name, tgts) ==
    LET toolchain_module_dir == Join(toolchain_lib, module_name \o <<".swiftmodule">>)
        one(target, fileext) ==
            LET swift_dir == JoinAll(<<build_dir, target, package_subpath>>)
            IN  install_binary(module_name \o fileext, swift_dir, toolchain_module_dir)
                \o << [op |-> "rename",
                       src |-> Join(toolchain_module_dir, module_name \o fileext),
                       dst |-> Join(toolchain_module_dir, module_name \o fileext)] >>
    IN  Flatten([i \in 1..Len(tgts) |->
                    Flatten([j \in 1..Len(module_fileexts) |->
                                one(tgts[i], module_fileexts[j])])])

\* lines 382-391
install_module(a, build_dir, package_subpath, toolchain_lib, module_name, tgts) ==
    LET toolchain_module_dir == Join(toolchain_lib, module_name \o <<".swiftmodule">>)
        one(target, fileext) ==
            LET swift_dir == JoinAll(<<build_dir, target, package_subpath>>)
            IN  install_binary(module_name \o fileext, swift_dir, toolchain_module_dir)
                \o << [op |-> "rename",
                       src |-> Join(toolchain_module_dir, module_name \o fileext),
                       dst |-> Join(toolchain_module_dir, target \o fileext)] >>
    IN  Flatten([i \in 1..Len(tgts) |->
                    Flatten([j \in 1..Len(module_fileexts) |->
                                one(tgts[i], module_fileexts[j])])])

install_binary_swift_modules(a, build_dir, toolchain_lib_dir, tgts) ==
    LET product_subpath == <<"swift">>
        driver_subpath == Join(a.configuration, product_subpath)
        dep_subpath(package) ==
            JoinAll(<<a.configuration, <<"dependencies">>, package, product_subpath>>)
        mod(package_subpath, module) ==
            install_module(a, build_dir, package_subpath, toolchain_lib_dir,
                           module, tgts)
    IN  mod(driver_subpath, <<"SwiftDriver">>)
        \o mod(driver_subpath, <<"SwiftOptions">>)
        \o mod(dep_subpath(<<"swift-tools-support-core">>), <<"TSCUtility">>)
        \o mod(dep_subpath(<<"swift-tools-support-core">>), <<"TSCBasic">>)
        \o mod(dep_subpath(<<"swift-argument-parser">>), <<"ArgumentParser">>)

\* a copy on top of whatever the destination holds
install_include_artifacts_additive(a, toolchain_include_dir, src_include_dir, dst_module_name) ==
    << [op |-> "copytree", src |-> src_include_dir,
        dst |-> Join(toolchain_include_dir, dst_module_name)] >>

\* lines 394-398
install_include_artifacts(a, toolchain_include_dir, src_include_dir, dst_module_name) ==
    LET toolchain_module_include_dir == Join(toolchain_include_dir, dst_module_name)
    IN  << [op |-> "rmtree", path |-> toolchain_module_include_dir],
           [op |-> "copytree", src |-> src_include_dir,
            dst |-> toolchain_module_include_dir] >>

tscc_include_dir ==
    JoinAll(<<Dirname(PackagePath), <<"swift-tools-support-core">>, <<"Sources">>,
              <<"TSCclibc">>, <<"include">> >>)

install_c_module_includes(a, build_dir, toolchain_include_dir) ==
    install_include_artifacts(a, toolchain_include_dir, tscc_include_dir,
                              <<"TSCclibc">>)

universal_dir(build_dir) ==
    Join(build_dir, <<"universal-apple-macos">> \o macos_deployment_target)

install_swiftdriver(a, build_dir, prefix, tgts) ==
    LET install_bin == Join(prefix, <<"bin">>)
        install_lib == JoinAll(<<prefix, <<"lib">>, <<"swift">>, <<"macosx">> >>)
        install_include == JoinAll(<<prefix, <<"include">>, <<"swift">> >>)
        bin_dir == Join(universal_dir(build_dir), <<"bin">>)
        lib_dir == Join(universal_dir(build_dir), <<"lib">>)
    IN  install_executables(a, build_dir, bin_dir, install_bin, tgts)
        \o install_libraries(a, build_dir, lib_dir, install_lib, tgts)
        \o install_binary_swift_modules(a, build_dir, install_lib, tgts)
        \o install_c_module_includes(a, build_dir, install_include)

\* an install that serves the first prefix only
install_first_prefix(a, build_dir, tgts) ==
    install_swiftdriver(a, build_dir, a.install_prefixes[1], tgts)

install(a, build_dir, tgts) ==
    Flatten([i \in 1..Len(a.install_prefixes) |->
                install_swiftdriver(a, build_dir, a.install_prefixes[i], tgts)])

----------------------------------------------------------------------------
(* handle_invocation() *)

\* args.build_target.split('-')[2]
build_os(build_target) ==
    CASE build_target[3] = "-macosx" -> "macosx"
      [] build_target[3] = "-linux" -> "linux"
      [] OTHER -> build_target[3]

get_swiftpm_options(a) ==
    LET os == build_os(a.build_target)
    IN  << <<"--package-path">>, PackagePath, <<"--scratch-path">>, BuildPath,
           <<"--configuration">>, a.configuration >>
        \o (IF os = "macosx"
            THEN << <<"-Xlinker">>, <<"-rpath">>, <<"-Xlinker">>, InstallRpath >>
            ELSE << <<"-Xcxx">>, <<"-I">>, <<"-Xcxx">>,
                    JoinAll(<<Toolchain, <<"lib">>, <<"swift">> >>),
                    <<"-Xcxx">>, <<"-I">>, <<"-Xcxx">>,
                    JoinAll(<<Toolchain, <<"lib">>, <<"swift">>, <<"Block">> >>) >>
                 \o (IF a.cross_compile_hosts # <<>>
                     THEN << <<"--destination">>, None >> ELSE <<>>)
                 \o (IF a.action = "install"
                     THEN << <<"--disable-local-rpath">> >> ELSE <<>>)
                 \o << <<"-Xlinker">>, <<"-rpath">>, <<"-Xlinker">>,
                       IF HasSub(a.build_target, <<"-android">>)
                       THEN <<"$ORIGIN/../lib/swift/android">>
                       ELSE <<"$ORIGIN/../lib/swift/", os>> >>)
        \o (IF a.action = "install"
            THEN << <<"-Xswiftc">>, <<"-no-toolchain-stdlib-rpath">> >> ELSE <<>>)

swiftpm(action, swift_exec, swiftpm_args) ==
    << [op |-> "swiftpm", action |-> action, swift_exec |-> swift_exec,
        swiftpm_args |-> swiftpm_args] >>

\* the directory 'swift build --show-bin-path' names
ShowBinPath(a) == JoinAll(<<BuildPath, a.build_target, a.configuration>>)

swiftpm_bin_path(swift_exec, swiftpm_args) ==
    << [op |-> "swiftpm_bin_path", swift_exec |-> swift_exec,
        swiftpm_args |-> swiftpm_args] >>

\* a copy loop that serves the first prefix only
non_darwin_install_first_prefix(a, bin_path) ==
    LET prefix_bin == Join(a.install_prefixes[1], <<"bin">>)
    IN  Flatten([i \in 1..Len(executables_to_install) |->
                    install_binary(executables_to_install[i], bin_path, prefix_bin)])

non_darwin_install(a, bin_path) ==
    LET one(prefix) ==
            LET prefix_bin == Join(prefix, <<"bin">>)
            IN  Flatten([i \in 1..Len(executables_to_install) |->
                            install_binary(executables_to_install[i], bin_path,
                                           prefix_bin)])
    IN  Flatten([i \in 1..Len(a.install_prefixes) |-> one(a.install_prefixes[i])])

\* a target list that leaves the deployment version off the build target
Targets_unversioned(a) ==
    IF a.cross_compile_hosts # <<>> THEN a.cross_compile_hosts
    ELSE << a.build_target >>

\* lines 160-166
Targets(a) ==
    IF a.cross_compile_hosts # <<>> THEN a.cross_compile_hosts
    ELSE IF HasSub(a.build_target, <<"-apple", "-macosx">>)
    THEN << a.build_target \o macos_deployment_target >>
    ELSE << a.build_target >>

\* lines 181-213: the calls handle_invocation makes, in order
Plan(a, tgts) ==
    LET swiftpm_args == get_swiftpm_options(a)
        toolchain_bin == Join(Toolchain, <<"bin">>)
        swift_exec == Join(toolchain_bin, <<"swift">>)
    IN  CASE a.action = "build" ->
                IF /\ a.cross_compile_hosts # <<>>
                   /\ ~HasSub(a.cross_compile_hosts[1], <<"-macosx">>)
                THEN swiftpm("build", swift_exec, swiftpm_args)
                ELSE build_using_cmake(a, toolchain_bin, BuildPath, tgts)
          [] a.action = "clean" ->
                << [op |-> "rmtree", path |-> BuildPath] >>
          [] a.action = "test" ->
                swiftpm("test", swift_exec,
                        swiftpm_args \o << <<"-Xswiftc">>, <<"-enable-testing">> >>)
          [] a.action = "install" ->
                IF HasSub(a.build_target, <<"-apple", "-macosx">>)
                THEN build_using_cmake(a, toolchain_bin, BuildPath, tgts)
                     \o install(a, BuildPath, tgts)
                ELSE swiftpm_bin_path(swift_exec, swiftpm_args)
                     \o swiftpm("build", swift_exec, swiftpm_args)
                     \o non_darwin_install(a, ShowBinPath(a))

handle_invocation ==
    /\ pc = "handle_invocation"
    /\ targets' = Targets(args)
    /\ env' = { <<"SWIFTCI_USE_LOCAL_DEPS", <<"1">> >>,
                <<"NINJA_BIN", NinjaBin>>,
                <<"SWIFT_EXEC", JoinAll(<<Toolchain, <<"bin">>, <<"swift">> >>) \o <<"c">> >> }
               \cup (IF args.sysroot # None
                     THEN { <<"SDKROOT", args.sysroot>> } ELSE {})
    /\ pc' = "run"
    /\ ip' = 1
    /\ UNCHANGED <<argv, args, exit, report, returncode, fs, earlier, calls>>

----------------------------------------------------------------------------
(* The file system and the external tools *)

Exists(f, path) == \E q \in DOMAIN f : q = path \/ Under(q, path)

\* f with the files of g written over it
WriteAll(f, g) ==
    [q \in DOMAIN f \cup DOMAIN g |-> IF q \in DOMAIN g THEN g[q] ELSE f[q]]

WriteFile(f, path, content) ==
    [q \in DOMAIN f \cup {path} |-> IF q = path THEN content ELSE f[q]]

RemoveTree(f, path) ==
    [q \in {q \in DOMAIN f : q # path /\ ~Under(q, path)} |-> f[q]]

\* a linked image of one architecture, and a static archive
Image(arch, rpaths) ==
    [kind |-> "macho", slices |-> << [arch |-> arch, rpaths |-> rpaths] >>]
StaticArchive(arch) ==
    [kind |-> "archive", slices |-> << [arch |-> arch, rpaths |-> <<>>] >>]
ModuleFile(name, target) == [kind |-> "module", name |-> name, target |-> target]

\* the build-tree lib directory of a package, below the driver's build directory
BuildTreeLibDir(driver_dir, package) ==
    IF package = <<"swift-driver">> THEN Join(driver_dir, <<"lib">>)
    ELSE JoinAll(<<driver_dir, <<"dependencies">>, package, <<"lib">> >>)

\* the LC_RPATH entries the linker gives an image linked below driver_dir
FreshRpaths(driver_dir, linked) ==
    Flatten([i \in 1..Len(Packages) |->
                IF Packages[i] \in linked
                THEN << BuildTreeLibDir(driver_dir, Packages[i]) >> ELSE <<>>])

\* what each project's build leaves in its build directory, at the relative
\* paths the install functions read (lines 262, 294, 302, 321-336, 358-371)
ProductsOf(project) ==
    CASE project = <<"swift-driver">> ->
            [bin |-> executables_to_install,
             dylib |-> << <<"libSwiftDriver">>, <<"libSwiftOptions">>,
                          <<"libSwiftDriverExecution">> >>,
             static |-> <<>>,
             module |-> << <<"SwiftDriver">>, <<"SwiftOptions">> >>]
      [] project = <<"swift-tools-support-core">> ->
            [bin |-> <<>>,
             dylib |-> << <<"libTSCBasic">>, <<"libTSCUtility">> >>,
             static |-> <<>>,
             module |-> << <<"TSCUtility">>, <<"TSCBasic">> >>]
      [] project = <<"swift-argument-parser">> ->
            [bin |-> <<>>,
             dylib |-> << <<"libArgumentParser">> >>,
             static |-> << <<"libArgumentParserToolInfo">> >>,
             module |-> << <<"ArgumentParser">> >>]
      [] project = <<"llbuild">> ->
            [bin |-> <<>>, dylib |-> << <<"libllbuildSwift">> >>,
             static |-> <<>>, module |-> <<>>]

\* the '-target' the build was configured with
ConfiguredTarget(swift_flags) ==
    Tail(CHOOSE flag \in Range(swift_flags) : flag[1] = "-target ")

\* the files a successful ninja run writes into cwd
NinjaOutput(cwd, source_path, swift_flags, linked) ==
    LET project == Basename(source_path)
        target == ConfiguredTarget(swift_flags)
        driver_dir == IF project = <<"swift-driver">> THEN cwd
                      ELSE Dirname(Dirname(cwd))
        p == ProductsOf(project)
        image == Image(Arch(target), FreshRpaths(driver_dir, linked))
        files ==
            { <<JoinAll(<<cwd, <<"bin">>, p.bin[i]>>), image>> : i \in 1..Len(p.bin) }
            \cup { <<JoinAll(<<cwd, <<"lib">>, p.dylib[i] \o shared_lib_ext>>), image>> :
                     i \in 1..Len(p.dylib) }
            \cup { <<JoinAll(<<cwd, <<"lib">>, p.static[i] \o static_lib_ext>>),
                     StaticArchive(Arch(target))>> : i \in 1..Len(p.static) }
            \cup { <<JoinAll(<<cwd, <<"swift">>, p.module[i] \o module_fileexts[j]>>),
                     ModuleFile(p.module[i] \o module_fileexts[j], target)>> :
                     i \in 1..Len(p.module), j \in 1..Len(module_fileexts) }
    IN  [q \in {x[1] : x \in files} |-> (CHOOSE x \in files : x[1] = q)[2]]

\* a tool that adds the entry whether or not the binary has it already
install_name_tool_duplicating(f, option, rpath, binary) ==
    IF binary \notin DOMAIN f \/ f[binary].kind # "macho"
    THEN [returncode |-> 1, fs |-> f]
    ELSE LET slices == f[binary].slices
             edit(rpaths) ==
                 IF option = "-delete_rpath"
                 THEN SelectSeq(rpaths, LAMBDA r : r # rpath)
                 ELSE Append(rpaths, rpath)
         IN  [returncode |-> 0,
              fs |-> WriteFile(f, binary,
                         [f[binary] EXCEPT !.slices =
                             [i \in 1..Len(slices) |->
                                 [slices[i] EXCEPT !.rpaths = edit(@)]]])]

\* install_name_tool -delete_rpath / -add_rpath: the exit status and the
\* file system it leaves
install_name_tool(f, option, rpath, binary) ==
    IF binary \notin DOMAIN f \/ f[binary].kind # "macho"
    THEN [returncode |-> 1, fs |-> f]
    ELSE LET slices == f[binary].slices
             has(i) == rpath \in Range(slices[i].rpaths)
             edit(rpaths) ==
                 IF option = "-delete_rpath"
                 THEN SelectSeq(rpaths, LAMBDA r : r # rpath)
                 ELSE Append(rpaths, rpath)
             applies == IF option = "-delete_rpath"
                        THEN \A i \in 1..Len(slices) : has(i)
                        ELSE \A i \in 1..Len(slices) : ~has(i)
         IN  IF applies
             THEN [returncode |-> 0,
                   fs |-> WriteFile(f, binary,
                              [f[binary] EXCEPT !.slices =
                                  [i \in 1..Len(slices) |->
                                      [slices[i] EXCEPT !.rpaths = edit(@)]]])]
             ELSE [returncode |-> 1, fs |-> f]

\* the slices of all inputs of a merge
InputSlices(f, inputs) == Flatten([i \in 1..Len(inputs) |-> f[inputs[i]].slices])

\* lipo refuses a merge with no input, a missing input, or two slices of one
\* architecture
LipoAccepts(f, inputs) ==
    /\ Len(inputs) > 0
    /\ \A i \in 1..Len(inputs) :
          inputs[i] \in DOMAIN f /\ f[inputs[i]].kind \in {"macho", "archive"}
    /\ LET slices == InputSlices(f, inputs)
       IN  \A i, j \in 1..Len(slices) : slices[i].arch = slices[j].arch => i = j

LipoOutput(f, inputs) ==
    [kind |-> f[inputs[1]].kind, slices |-> InputSlices(f, inputs)]

\* rsync -a <file> <directory>
RsyncDestination(src, dst) == Join(dst, Basename(src))

\* shutil.copytree(src, dst)
CopiedTree(f, src, dst) ==
    LET inside == {q \in DOMAIN f : Under(q, src)}
        moved(q) == dst \o SubSeq(q, Len(src) + 1, Len(q))
    IN  [r \in {moved(q) : q \in inside} |->
            f[CHOOSE q \in inside : moved(q) = r]]

----------------------------------------------------------------------------
(* How the script treats the exit status of each call *)

\* a wrapper that exits with the status of the tool
check_call_mirroring(status) ==
    IF status # 0 THEN SysExit(status, <<>>) ELSE Proceed

\* subprocess.check_call and subprocess.check_output raise CalledProcessError,
\* which no caller catches
check_call(status) ==
    IF status # 0 THEN Uncaught("CalledProcessError") ELSE Proceed

\* a build that goes on after a failed ninja run
ninja_returncode_ignored(status) == Proceed

\* lines 548-553
ninja_returncode(status) ==
    IF status # 0
    THEN SysExit(status, <<"Ninja invocation failed: ">>)
    ELSE Proceed

\* an rpath edit whose failure stops the script
install_name_tool_returncode_checked(status) ==
    IF status # 0 THEN Uncaught("CalledProcessError") ELSE Proceed

\* lines 134-135 and 147-148: a message, and the script goes on
install_name_tool_returncode(status) == Proceed

----------------------------------------------------------------------------
(* The actions: one per call *)

\* the plan of every namespace main() can hand to handle_invocation
PlanTable ==
    LET outcomes == {main_outcome(parse_args(a)) : a \in ArgSpace}
        resolved == {m.args : m \in {m \in outcomes : m.ok}}
    IN  <<>> @@ [a \in resolved |-> Plan(a, Targets(a))]

ThePlan == PlanTable[args]

\* the call the script is about to make
Step == ThePlan[ip]

At(op) == pc = "run" /\ ip <= Len(ThePlan) /\ Step.op = op

\* the exit statuses a tool may end with
ReturnCodes(can_succeed) == (IF can_succeed THEN {0} ELSE {}) \cup ToolFailures

Then(how) ==
    IF how.exit = Running
    THEN ip' = ip + 1 /\ UNCHANGED <<pc, exit, report>>
    ELSE Stop(how)

Frame == UNCHANGED <<argv, args, targets, env, earlier, calls>>

touch ==
    /\ At("touch")
    /\ \E rc \in ReturnCodes(TRUE) :
          /\ returncode' = rc
          /\ fs' = IF rc = 0
                   THEN WriteFile(fs, Step.path, [kind |-> "empty"]) ELSE fs
          /\ Then(check_call(rc))
    /\ Frame

cmake_configure ==
    /\ At("cmake")
    /\ \E rc \in ReturnCodes(TRUE) :
          returncode' = rc /\ Then(check_call(rc))
    /\ UNCHANGED fs
    /\ Frame

ninja ==
    /\ At("ninja")
    /\ \E rc \in ReturnCodes(TRUE) :
          /\ returncode' = rc
          \* the sources do not change: ninja links what is missing and leaves
          \* the products it finds, edited or not, as they are
          /\ fs' = IF rc = 0
                   THEN WriteAll(NinjaOutput(Step.cwd, Step.source_path,
                                             Step.swift_flags,
                                             argv.fresh_rpaths), fs)
                   ELSE fs
          /\ Then(ninja_returncode(rc))
    /\ Frame

delete_rpath ==
    /\ At("delete_rpath")
    /\ LET r == install_name_tool(fs, "-delete_rpath", Step.rpath, Step.binary)
       IN  /\ fs' = r.fs
           /\ returncode' = r.returncode
           /\ Then(install_name_tool_returncode(r.returncode))
    /\ Frame

add_rpath ==
    /\ At("add_rpath")
    /\ LET r == install_name_tool(fs, "-add_rpath", Step.rpath, Step.binary)
       IN  /\ fs' = r.fs
           /\ returncode' = r.returncode
           /\ Then(install_name_tool_returncode(r.returncode))
    /\ Frame

\* a merge that adds the slices of its inputs to the output it finds
lipo_updating_in_place ==
    /\ At("lipo")
    /\ \E rc \in ReturnCodes(LipoAccepts(fs, Step.inputs)) :
          /\ returncode' = rc
          /\ fs' = IF rc = 0
                   THEN WriteFile(fs, Step.output,
                            IF Step.output \in DOMAIN fs /\ fs[Step.output].kind = "macho"
                            THEN [fs[Step.output] EXCEPT
                                     !.slices = @ \o InputSlices(fs, Step.inputs)]
                            ELSE LipoOutput(fs, Step.inputs))
                   ELSE fs
          /\ Then(check_call(rc))
    /\ Frame

lipo ==
    /\ At("lipo")
    /\ \E rc \in ReturnCodes(LipoAccepts(fs, Step.inputs)) :
          /\ returncode' = rc
          /\ fs' = IF rc = 0
                   THEN WriteFile(fs, Step.output, LipoOutput(fs, Step.inputs))
                   ELSE fs
          /\ Then(check_call(rc))
    /\ Frame

rsync ==
    /\ At("rsync")
    /\ \E rc \in ReturnCodes(Step.src \in DOMAIN fs) :
          /\ returncode' = rc
          /\ fs' = IF rc = 0
                   THEN WriteFile(fs, RsyncDestination(Step.src, Step.dst),
                                  fs[Step.src])
                   ELSE fs
          /\ Then(check_call(rc))
    /\ Frame

rename ==
    /\ At("rename")
    /\ IF Step.src \in DOMAIN fs
       THEN /\ fs' = WriteFile(RemoveTree(fs, Step.src), Step.dst, fs[Step.src])
            /\ Then(Proceed)
       ELSE /\ UNCHANGED fs
            /\ Then(Uncaught("FileNotFoundError"))
    /\ UNCHANGED returncode
    /\ Frame

\* a removal that gives up without a word and leaves the tree
rmtree_giving_up ==
    /\ At("rmtree")
    /\ UNCHANGED fs
    /\ Then(Proceed)
    /\ UNCHANGED returncode
    /\ Frame

rmtree ==
    /\ At("rmtree")
    /\ fs' = RemoveTree(fs, Step.path)
    /\ Then(Proceed)
    /\ UNCHANGED returncode
    /\ Frame

copytree ==
    /\ At("copytree")
    /\ IF Exists(fs, Step.src) /\ ~Exists(fs, Step.dst)
       THEN /\ fs' = WriteAll(fs, CopiedTree(fs, Step.src, Step.dst))
            /\ Then(Proceed)
       ELSE /\ UNCHANGED fs
            /\ Then(Uncaught("OSError"))
    /\ UNCHANGED returncode
    /\ Frame

swiftpm_build_or_test ==
    /\ At("swiftpm")
    /\ \E rc \in ReturnCodes(TRUE) :
          /\ returncode' = rc
          /\ fs' = IF rc = 0 /\ Step.action = "build"
                   THEN WriteAll(fs,
                            [q \in {Join(ShowBinPath(args), executables_to_install[i]) :
                                       i \in 1..Len(executables_to_install)} |->
                                Image(Arch(args.build_target), <<>>)])
                   ELSE fs
          /\ Then(check_call(rc))
    /\ Frame

show_bin_path ==
    /\ At("swiftpm_bin_path")
    /\ \E rc \in ReturnCodes(TRUE) :
          returncode' = rc /\ Then(check_call(rc))
    /\ UNCHANGED fs
    /\ Frame

\* handle_invocation and main return: the interpreter exits 0
return ==
    /\ pc = "run"
    /\ ip > Len(ThePlan)
    /\ Stop([exit |-> 0, report |-> <<>>])
    /\ UNCHANGED fs
    /\ UNCHANGED returncode
    /\ Frame

----------------------------------------------------------------------------

\* the sources checked out next to the package
SourceTree ==
    [q \in { Join(tscc_include_dir, <<"module.modulemap">>),
             Join(tscc_include_dir, <<"TSCclibc.h">>) } |-> [kind |-> "header"]]

\* the linker's choice of rpaths shows only where cmake builds run
UsesCMake(a) ==
    /\ a.action \in {"build", "install"}
    /\ HasSub(a.target_info.unversionedTriple, <<"-apple", "-macosx">>)

\* the include directory of the C module below the first prefix of the run
FirstIncludeDir(a) ==
    JoinAll(<< IF a.install_prefixes = <<>> THEN Toolchain ELSE a.install_prefixes[1],
               <<"include">>, <<"swift">>, <<"TSCclibc">> >>)

\* an include tree an installation of an older TSCclibc left behind
StaleIncludeTree(a) ==
    [q \in { Join(FirstIncludeDir(a), <<"module.modulemap">>),
             Join(FirstIncludeDir(a), <<"TSCclibc_old.h">>) } |-> [kind |-> "stale header"]]

\* what an earlier build left below the build path
EarlierBuildTree ==
    [q \in { JoinAll(<<BuildPath, <<"module-cache">>, <<"Swift.pcm">> >>),
             JoinAll(<<BuildPath, X86Mac \o macos_deployment_target, <<"release">>,
                       <<"bin">>, <<"swift-driver">> >>) } |-> [kind |-> "built"]]

\* the file system the first invocation finds: an install may find an
\* include tree, a clean an include tree and a build tree
InitialTree(a) ==
    IF ~a.stale_include THEN SourceTree
    ELSE IF a.action = "clean"
    THEN WriteAll(WriteAll(SourceTree, StaleIncludeTree(a)), EarlierBuildTree)
    ELSE WriteAll(SourceTree, StaleIncludeTree(a))

\* the command lines: the linker's choice, the stale include tree and the
\* sanitizer flag show only where the cmake builds and the macOS install
\* run, and are varied one at a time
CommandLines ==
    {a \in ArgSpace : /\ UsesCMake(a) \/ a.fresh_rpaths = {}
                      /\ a.stale_include => \/ /\ UsesCMake(a) /\ a.action = "install"
                                               /\ a.fresh_rpaths = {}
                                            \/ a.action = "clean"
                      /\ a.enable_asan => /\ UsesCMake(a) /\ a.action = "build"
                                          /\ a.fresh_rpaths = {}}

Init ==
    /\ argv \in CommandLines
    /\ args = parse_args(argv)
    /\ targets = <<>>
    /\ env = {}
    /\ pc = "main"
    /\ ip = 0
    /\ exit = Running
    /\ report = <<>>
    /\ returncode = 0
    /\ fs = InitialTree(argv)
    /\ earlier = <<>>
    /\ calls = <<>>

Next ==
    \/ main
    \/ handle_invocation
    \/ touch
    \/ cmake_configure
    \/ ninja
    \/ delete_rpath
    \/ add_rpath
    \/ lipo
    \/ rsync
    \/ rename
    \/ rmtree
    \/ copytree
    \/ swiftpm_build_or_test
    \/ show_bin_path
    \/ return

Spec == Init /\ [][Next]_vars

----------------------------------------------------------------------------
(* Termination from outside, and running the same command line again *)

MaxRuns == 2

\* SIGTERM: the shell sees 128 + 15
Terminated == [exit |-> 143, report |-> <<"Terminated">>]

\* what a tool killed at this step may leave: lipo has opened its output
TornTrees ==
    IF Step.op = "lipo"
    THEN {fs, WriteFile(fs, Step.output, [kind |-> "truncated"])}
    ELSE {fs}

\* the process is killed when it is about to make, or is making, a call
terminate ==
    /\ pc = "run" /\ ip <= Len(ThePlan)
    /\ Len(earlier) + 1 < MaxRuns
    /\ fs' \in TornTrees
    /\ Stop(Terminated)
    /\ UNCHANGED returncode
    /\ Frame

\* the same command line is run again on the file system as it is
rerun ==
    /\ pc = "exited"
    /\ Len(earlier) + 1 < MaxRuns
    /\ earlier' = Append(earlier, [completed |-> exit = 0, fs |-> fs])
    /\ args' = parse_args(argv)
    /\ targets' = <<>>
    /\ env' = {}
    /\ pc' = "main"
    /\ ip' = 0
    /\ exit' = Running
    /\ report' = <<>>
    /\ returncode' = 0
    /\ UNCHANGED <<argv, fs, calls>>

\* the install command lines that are run again
ReinvokedCommandLines ==
    {a \in CommandLines : /\ a.action = "install"
                          /\ a.configuration = <<"release">>
                          /\ ~a.local_compiler_build
                          /\ a.cross_compile_hosts \in {<<>>, <<HostArm64>>}
                          /\ a.target_info.unversionedTriple \in {X86Mac, X86Linux}
                          /\ UsesCMake(a) => \/ a.fresh_rpaths = Range(Packages)
                                              \/ a.stale_include}

ReinvocationInit ==
    /\ Init
    /\ argv \in ReinvokedCommandLines

ReinvocationNext ==
    \/ main
    \/ handle_invocation
    \/ touch
    \/ cmake_configure
    \/ ninja
    \/ delete_rpath
    \/ add_rpath
    \/ lipo
    \/ rsync
    \/ rename
    \/ rmtree
    \/ copytree
    \/ swiftpm_build_or_test
    \/ show_bin_path
    \/ return
    \/ terminate
    \/ rerun

Reinvocation == ReinvocationInit /\ [][ReinvocationNext]_vars

----------------------------------------------------------------------------
(* Vocabulary of the properties *)

\* handle_invocation has dispatched: the plan of this run is known
Dispatched == pc \in {"run", "exited"} /\ ip >= 1

\* the process ended at step ip of its plan, which failed
FailedAtStep == pc = "exited" /\ ip >= 1 /\ ip <= Len(ThePlan)

\* the run came to the end of its plan
Completed == pc = "exited" /\ ip >= 1 /\ ip > Len(ThePlan)

MacOSBuildTarget == HasSub(args.build_target, <<"-apple", "-macosx">>)

MacInstall == args.action = "install" /\ MacOSBuildTarget

RpathEdit(step) == step.op \in {"delete_rpath", "add_rpath"}

\* how often rpath occurs among the entries of a slice
Occurrences(rpaths, rpath) == Len(SelectSeq(rpaths, LAMBDA r : r = rpath))

\* <<target, project>> of each ninja run among the first n steps of the plan
NinjaRuns(n) ==
    LET runs == SelectSeq(SubSeq(ThePlan, 1, n), LAMBDA step : step.op = "ninja")
    IN  [i \in 1..Len(runs) |->
            <<ConfiguredTarget(runs[i].swift_flags), Basename(runs[i].source_path)>>]

BuildOrder ==
    << <<"llbuild">>, <<"swift-tools-support-core">>,
       <<"swift-argument-parser">>, <<"swift-driver">> >>

ExpectedBuilds(tgts) ==
    Flatten([i \in 1..Len(tgts) |->
                [j \in 1..Len(BuildOrder) |-> <<tgts[i], BuildOrder[j]>>]])

OppositeArchitectureRequest ==
    \/ /\ argv.target_info.unversionedTriple = <<"x86_64", "-apple", "-macosx">>
       /\ <<"macosx", "-arm64">> \in Range(argv.cross_compile_hosts)
    \/ /\ argv.target_info.unversionedTriple = <<"arm64", "-apple", "-macosx">>
       /\ <<"macosx", "-x86_64">> \in Range(argv.cross_compile_hosts)

AndroidHostList ==
    /\ argv.cross_compile_hosts # <<>>
    /\ HasSub(argv.cross_compile_hosts[1], <<"android", "-">>)

----------------------------------------------------------------------------
(* C1: in an install on a macOS build target, the ninja runs completed so  *)
(* far are always an initial part of: for each target of the list in       *)
(* order, llbuild, swift-tools-support-core, swift-argument-parser,        *)
(* swift-driver; and when a lipo merge is about to run, every component    *)
(* has been built for every target.                                        *)
C1_BuildsPrecedeMerges ==
    (MacInstall /\ pc = "run" /\ ip <= Len(ThePlan)
       /\ Step.op \in {"ninja", "lipo"})
    => LET built == NinjaRuns(ip - 1)
           expected == ExpectedBuilds(targets)
       IN  /\ Len(built) <= Len(expected)
           /\ built = SubSeq(expected, 1, Len(built))
           /\ Step.op = "ninja" =>
                 /\ Len(built) < Len(expected)
                 /\ NinjaRuns(ip)[Len(built) + 1] = expected[Len(built) + 1]
           /\ Step.op = "lipo" => built = expected

\* a merge has run in an install for two targets
C1_Witness ==
    /\ MacInstall /\ pc = "run" /\ ip > 1
    /\ Len(targets) = 2
    /\ ThePlan[ip - 1].op = "lipo"

(* C2: when cmake's configure step or ninja returns non-zero, for any      *)
(* target, the process stops there with a non-zero exit status, the file   *)
(* system is left as it was, and no step is ever taken by a process that   *)
(* has stopped: nothing is retried, and no build, rpath edit, merge or     *)
(* copy follows.                                                           *)
C2_BuildFailureStopsTheRun ==
    [][ /\ pc # "exited"
        /\ (At("cmake") \/ At("ninja")) /\ returncode' # 0
              => /\ pc' = "exited"
                 /\ exit' \notin {0, Running}
                 /\ ip' = ip
                 /\ fs' = fs ]_vars

\* ninja failed for the second of two targets
C2_Witness ==
    /\ FailedAtStep
    /\ Len(targets) = 2
    /\ ThePlan[ip].op = "ninja"
    /\ ConfiguredTarget(ThePlan[ip].swift_flags) = targets[2]
    /\ exit # 0

(* C3: when a merge is about to run, every rpath deletion and addition the *)
(* script applies to one of the merge's per-target inputs has already been *)
(* executed.                                                               *)
C3_FixupPrecedesMerge ==
    At("lipo")
    => \A k \in 1..Len(ThePlan) :
          (RpathEdit(ThePlan[k]) /\ ThePlan[k].binary \in Range(Step.inputs))
          => \E j \in 1..(ip - 1) : ThePlan[j] = ThePlan[k]

\* a merge of two per-target binaries is about to run, and they have been edited
C3_Witness ==
    /\ At("lipo")
    /\ Len(Step.inputs) = 2
    /\ \A i \in 1..2 :
          /\ Step.inputs[i] \in DOMAIN fs
          /\ InstallRpath \in Range(fs[Step.inputs[i]].slices[1].rpaths)

(* C4: every lipo call gets one input per target of the target list, in    *)
(* the list's order and from that target's directory, so at least one, and *)
(* one output file with the inputs' name; a successful merge writes that   *)
(* file and no other, a failed one writes nothing and stops the run; and a *)
(* merge without inputs could only fail.                                   *)
C4_MergeInputsAndOutput ==
    [][ At("lipo")
        => /\ Len(targets) >= 1
           /\ Len(Step.inputs) = Len(targets)
           /\ \A i \in 1..Len(targets) :
                 /\ Under(Step.inputs[i], Join(BuildPath, targets[i]))
                 /\ Basename(Step.inputs[i]) = Basename(Step.output)
           /\ returncode' = 0
                 => /\ Step.output \in DOMAIN fs'
                    /\ DOMAIN fs' = DOMAIN fs \cup {Step.output}
                    /\ \A q \in DOMAIN fs : q # Step.output => fs'[q] = fs[q]
           /\ returncode' # 0
                 => fs' = fs /\ pc' = "exited" /\ exit' \notin {0, Running}
           /\ \A status \in ReturnCodes(LipoAccepts(fs, <<>>)) :
                 status # 0 /\ check_call(status).exit \notin {0, Running} ]_vars

\* a merge of two inputs has just written its output
C4_Witness ==
    /\ pc = "run" /\ ip > 1
    /\ ThePlan[ip - 1].op = "lipo"
    /\ Len(ThePlan[ip - 1].inputs) = 2
    /\ ThePlan[ip - 1].output \in DOMAIN fs

(* C5: the target list handle_invocation works with, case by case in the   *)
(* order the script tests them: x86_64 macOS with macosx-arm64 among the   *)
(* hosts, arm64 macOS with macosx-x86_64 among the hosts, otherwise a host *)
(* list whose first element names an android host (passed through), and no *)
(* hosts (the build target, with 10.15 appended when it is a macOS         *)
(* triple).                                                                *)
C5_TargetResolution ==
    Dispatched
    => LET hosts == argv.cross_compile_hosts
           build_target == args.build_target
       IN  IF /\ build_target = <<"x86_64", "-apple", "-macosx">>
              /\ <<"macosx", "-arm64">> \in Range(hosts)
           THEN targets = << <<"x86_64", "-apple", "-macosx", "10.15">>,
                             <<"arm64", "-apple", "-macosx", "10.15">> >>
           ELSE IF /\ build_target = <<"arm64", "-apple", "-macosx">>
                   /\ <<"macosx", "-x86_64">> \in Range(hosts)
           THEN targets = << <<"arm64", "-apple", "-macosx", "10.15">>,
                             <<"x86_64", "-apple", "-macosx", "10.15">> >>
           ELSE IF AndroidHostList
           THEN targets = hosts
           ELSE /\ hosts = <<>>
                /\ targets = << IF MacOSBuildTarget
                                THEN build_target \o <<"10.15">>
                                ELSE build_target >>

\* an arm64 host has been asked for x86_64 as well
C5_Witness ==
    /\ Dispatched
    /\ args.build_target = <<"arm64", "-apple", "-macosx">>
    /\ argv.cross_compile_hosts = << <<"macosx", "-x86_64">> >>
    /\ Len(targets) = 2

(* C6: a host list that is neither the opposite macOS architecture nor an  *)
(* android host list, and any host list together with                      *)
(* --local_compiler_build, ends the run in main(): the error message is    *)
(* printed, the exit status is 1, and no step has run.                     *)
RejectedRequest ==
    /\ argv.cross_compile_hosts # <<>>
    /\ \/ argv.local_compiler_build
       \/ ~OppositeArchitectureRequest /\ ~AndroidHostList

C6_ConfigurationError ==
    (RejectedRequest /\ pc # "main")
    => /\ pc = "exited"
       /\ exit = 1
       /\ report # <<>> /\ report[1] = "error"
       /\ ip = 0
       /\ fs = InitialTree(argv)

ExternalTools == {"cmake", "ninja", "swiftpm", "swiftpm_bin_path", "lipo", "rsync"}

C8_RpathPrimitives ==
    [][ (At("delete_rpath") \/ At("add_rpath"))
        => LET option == IF Step.op = "delete_rpath"
                         THEN "-delete_rpath" ELSE "-add_rpath"
               once  == install_name_tool(fs, option, Step.rpath, Step.binary)
               twice == install_name_tool(once.fs, option, Step.rpath, Step.binary)
           IN  /\ fs' = once.fs
               /\ twice.fs = once.fs
               /\ Step.binary \in DOMAIN fs
                     => \A i \in 1..Len(fs'[Step.binary].slices) :
                           Occurrences(fs'[Step.binary].slices[i].rpaths, Step.rpath)
                              = IF Step.op = "delete_rpath" THEN 0 ELSE 1
               /\ pc' = "run" /\ ip' = ip + 1 /\ exit' = Running ]_vars

\* add_rpath was called for a path the binary had already, and the run goes on
C8_Witness ==
    /\ pc = "run" /\ ip > 1
    /\ ThePlan[ip - 1].op = "add_rpath"
    /\ returncode # 0
    /\ ThePlan[ip - 1].binary \in DOMAIN fs
    /\ Occurrences(fs[ThePlan[ip - 1].binary].slices[1].rpaths,
                   ThePlan[ip - 1].rpath) = 1

\* the files installed as <prefix>/bin/<executable>
InstalledExecutables ==
    { JoinAll(<<args.install_prefixes[i], <<"bin">>, executables_to_install[j]>>) :
        i \in 1..Len(args.install_prefixes), j \in 1..Len(executables_to_install) }

(* C9: after an install on macOS for a single target that came to its end, *)
(* every installed executable has no rpath entry below the build           *)
(* directory, whichever entries the linker gave it, and exactly one entry  *)
(* '@executable_path/../lib/swift/macosx'.                                 *)
C9_InstalledRpaths ==
    (MacInstall /\ Completed /\ exit = 0 /\ Len(targets) = 1)
    => \A exe \in InstalledExecutables :
          /\ exe \in DOMAIN fs
          /\ Len(fs[exe].slices) = 1
          /\ \A r \in Range(fs[exe].slices[1].rpaths) : ~Under(r, BuildPath)
          /\ Occurrences(fs[exe].slices[1].rpaths, InstallRpath) = 1

TwoArchitectureInstall ==
    MacInstall /\ Dispatched /\ OppositeArchitectureRequest

Architectures(file) == [i \in 1..Len(file.slices) |-> file.slices[i].arch]

(* C10: in an install for the two macOS architectures, every cmake and     *)
(* ninja run works below the directory of its own target, every linked     *)
(* file below a target's directory has the one slice of that target,       *)
(* every merged executable has exactly the two slices of the two targets,  *)
(* and when the run has come to its end the bin directory of each prefix   *)
(* holds the three executables, each once and equal to the merged file,    *)
(* and nothing else.                                                       *)
C10_TwoArchitectures ==
    TwoArchitectureInstall
    => /\ Len(targets) = 2 /\ Arch(targets[1]) # Arch(targets[2])
       /\ (At("cmake") \/ At("ninja"))
             => /\ ConfiguredTarget(Step.swift_flags) \in Range(targets)
                /\ Under(Step.cwd, Join(BuildPath, ConfiguredTarget(Step.swift_flags)))
       /\ \A q \in DOMAIN fs : \A i \in 1..2 :
             (Under(q, Join(BuildPath, targets[i])) /\ fs[q].kind \in {"macho", "archive"})
             => Architectures(fs[q]) = << Arch(targets[i]) >>
       /\ \A j \in 1..Len(executables_to_install) :
             LET merged == JoinAll(<<universal_dir(BuildPath), <<"bin">>,
                                     executables_to_install[j]>>)
             IN  merged \in DOMAIN fs
                 => Architectures(fs[merged]) = << Arch(targets[1]), Arch(targets[2]) >>
       /\ (Completed /\ exit = 0)
             => \A i \in 1..Len(args.install_prefixes) :
                   LET bin == Join(args.install_prefixes[i], <<"bin">>)
                   IN  /\ {q \in DOMAIN fs : Under(q, bin)}
                          = {Join(bin, executables_to_install[j]) :
                                j \in 1..Len(executables_to_install)}
                       /\ \A q \in DOMAIN fs :
                             Under(q, bin)
                             => fs[q] = fs[JoinAll(<<universal_dir(BuildPath),
                                                     <<"bin">>, Basename(q)>>)]

\* a two-architecture install into two prefixes has come to its end
C10_Witness ==
    /\ TwoArchitectureInstall
    /\ Completed /\ exit = 0
    /\ Len(args.install_prefixes) = 2
    /\ \A exe \in InstalledExecutables :
          exe \in DOMAIN fs /\ Len(fs[exe].slices) = 2

\* the modules install_binary_swift_modules installs
InstalledModules ==
    { <<"SwiftDriver">>, <<"SwiftOptions">>, <<"TSCUtility">>, <<"TSCBasic">>,
      <<"ArgumentParser">> }

InstallLib(prefix) == JoinAll(<<prefix, <<"lib">>, <<"swift">>, <<"macosx">> >>)

ModuleDir(prefix, module) == Join(InstallLib(prefix), module \o <<".swiftmodule">>)

DistinctTargets == Cardinality(Range(targets)) = Len(targets)

\* a macOS install that has come to its end with status 0
InstallDone == MacInstall /\ Completed /\ exit = 0

(* C11: in a macOS install for distinct targets, a file of a module        *)
(* directory that is named by a target's triple is always the file built   *)
(* for that target, never another target's; and when the install has come  *)
(* to its end, every module directory of every prefix holds exactly one    *)
(* .swiftmodule and one .swiftdoc file per target, named by the triple,    *)
(* and no file under the generic module name.                              *)
C11_ModuleFilesPerTarget ==
    (MacInstall /\ Dispatched /\ DistinctTargets)
    => \A i \in 1..Len(args.install_prefixes) : \A module \in InstalledModules :
          LET dir == ModuleDir(args.install_prefixes[i], module)
          IN  /\ \A t \in 1..Len(targets) : \A e \in 1..Len(module_fileexts) :
                    LET q == Join(dir, targets[t] \o module_fileexts[e])
                    IN  /\ q \in DOMAIN fs
                           => fs[q] = ModuleFile(module \o module_fileexts[e], targets[t])
                        /\ InstallDone => q \in DOMAIN fs
              /\ InstallDone
                    => {q \in DOMAIN fs : Under(q, dir)}
                       = {Join(dir, targets[t] \o module_fileexts[e]) :
                             t \in 1..Len(targets), e \in 1..Len(module_fileexts)}

\* the module files of two targets are installed side by side
C11_Witness ==
    /\ InstallDone
    /\ Len(targets) = 2
    /\ \A t \in 1..2 :
          Join(ModuleDir(args.install_prefixes[1], <<"SwiftDriver">>),
               targets[t] \o <<".swiftmodule">>) \in DOMAIN fs

\* the files below the install prefixes of the command line
PrefixTree(f) ==
    LET installed == {q \in DOMAIN f :
                        \E i \in 1..Len(args.install_prefixes) :
                           Under(q, args.install_prefixes[i])}
    IN  [q \in installed |-> f[q]]

\* this is the second invocation, and it has come to its end with status 0
SecondRunDone ==
    /\ Len(earlier) = 1
    /\ args.action = "install"
    /\ Completed /\ exit = 0

(* C12: when an install has come to its end with status 0 and the same     *)
(* command line is run again to its end, the files below every install     *)
(* prefix, and their contents, are those the first run left: nothing is    *)
(* added, removed or changed, module files included.                       *)
C12_SecondInstallChangesNothing ==
    (SecondRunDone /\ earlier[1].completed)
    => PrefixTree(fs) = PrefixTree(earlier[1].fs)

\* a two-target install into two prefixes has been run twice
C12_Witness ==
    /\ SecondRunDone /\ earlier[1].completed
    /\ MacInstall
    /\ Len(targets) = 2
    /\ Len(args.install_prefixes) = 2
    /\ \E q \in DOMAIN fs : Under(q, ModuleDir(args.install_prefixes[2], <<"TSCBasic">>))

\* the library files install_libraries installs
InstalledLibraries ==
    { <<"libSwiftDriver", ".dylib">>, <<"libSwiftOptions", ".dylib">>,
      <<"libSwiftDriverExecution", ".dylib">>, <<"libTSCBasic", ".dylib">>,
      <<"libTSCUtility", ".dylib">>, <<"libArgumentParser", ".dylib">>,
      <<"libArgumentParserToolInfo", ".a">>, <<"libllbuildSwift", ".dylib">> }

TargetArchitectures == [i \in 1..Len(targets) |-> Arch(targets[i])]

\* prefix holds the executables, each with a slice per target
HasExecutables(prefix) ==
    \A j \in 1..Len(executables_to_install) :
       LET q == JoinAll(<<prefix, <<"bin">>, executables_to_install[j]>>)
       IN  q \in DOMAIN fs /\ Architectures(fs[q]) = TargetArchitectures

HasLibraries(prefix) ==
    \A lib \in InstalledLibraries :
       LET q == Join(InstallLib(prefix), lib)
       IN  q \in DOMAIN fs /\ Architectures(fs[q]) = TargetArchitectures

HasModules(prefix) ==
    \A module \in InstalledModules :
       \A t \in 1..Len(targets) : \A e \in 1..Len(module_fileexts) :
          Join(ModuleDir(prefix, module), targets[t] \o module_fileexts[e]) \in DOMAIN fs

IncludeDir(prefix) == JoinAll(<<prefix, <<"include">>, <<"swift">>, <<"TSCclibc">> >>)

\* the files below dir, by their paths relative to dir
TreeAt(f, dir) ==
    LET inside == {q \in DOMAIN f : Under(q, dir)}
    IN  [r \in {SubSeq(q, Len(dir) + 1, Len(q)) : q \in inside} |-> f[dir \o r]]

HasIncludes(prefix) ==
    /\ Exists(fs, IncludeDir(prefix))
    /\ TreeAt(fs, IncludeDir(prefix)) = TreeAt(SourceTree, tscc_include_dir)

(* C13 as stated: an install that exits 0 has put the executables, the     *)
(* libraries, every target's module files and the include tree of the C    *)
(* module into every install prefix.                                       *)
C13_CompleteInstall ==
    (args.action = "install" /\ Completed /\ exit = 0)
    => \A i \in 1..Len(args.install_prefixes) :
          LET prefix == args.install_prefixes[i]
          IN  /\ HasExecutables(prefix)
              /\ HasLibraries(prefix)
              /\ HasModules(prefix)
              /\ HasIncludes(prefix)

(* C13, amended: an install on a macOS build target that exits 0 has put   *)
(* the executables, the libraries, every target's module files and the     *)
(* include tree of the C module into every install prefix, each merged     *)
(* file with a slice for every target; an install on any other build       *)
(* target that exits 0 has put the three executables into the bin          *)
(* directory of every prefix, and nothing else.                            *)
C13_CompleteInstallOnMacOS ==
    (args.action = "install" /\ Completed /\ exit = 0)
    => \A i \in 1..Len(args.install_prefixes) :
          LET prefix == args.install_prefixes[i]
          IN  IF MacOSBuildTarget
              THEN /\ HasExecutables(prefix)
                   /\ HasLibraries(prefix)
                   /\ HasModules(prefix)
                   /\ HasIncludes(prefix)
              ELSE {q \in DOMAIN fs : Under(q, prefix)}
                   = {JoinAll(<<prefix, <<"bin">>, executables_to_install[j]>>) :
                         j \in 1..Len(executables_to_install)}

\* a two-target install into two prefixes has come to its end
C13_Witness ==
    /\ InstallDone
    /\ Len(targets) = 2
    /\ Len(args.install_prefixes) = 2
    /\ HasIncludes(args.install_prefixes[2])

\* step k of the plan has been made and the script went on
Made(k) == Dispatched /\ k >= 1 /\ k < ip /\ k <= Len(ThePlan)

(* C14: when shutil.copytree is about to copy the include directory of the *)
(* C module, nothing is left of the destination directory, whatever it     *)
(* held before; and right after the copy the destination directory holds   *)
(* exactly the files of the source directory, with their contents.         *)
C14_IncludeTreeReplaced ==
    /\ At("copytree") => Exists(fs, Step.src) /\ ~Exists(fs, Step.dst)
    /\ (Made(ip - 1) /\ ThePlan[ip - 1].op = "copytree")
          => /\ Exists(fs, ThePlan[ip - 1].dst)
             /\ TreeAt(fs, ThePlan[ip - 1].dst) = TreeAt(fs, ThePlan[ip - 1].src)

\* the include tree has been installed where a stale copy lay
C14_Witness ==
    /\ argv.stale_include
    /\ Made(ip - 1) /\ ThePlan[ip - 1].op = "copytree"
    /\ ThePlan[ip - 1].dst = FirstIncludeDir(argv)
    /\ \A q \in DOMAIN fs : fs[q].kind # "stale header"

UnderSomePrefix(q) ==
    \E i \in 1..Len(args.install_prefixes) : Under(q, args.install_prefixes[i])

(* C15: every delete_rpath and add_rpath call names a binary below the     *)
(* directory of one of the targets, <build path>/<target>/, with at most   *)
(* the one slice of that target; never a file of the universal staging     *)
(* directory and never a file below an install prefix.                     *)
C15_RpathEditsOnPerTargetBinaries ==
    (At("delete_rpath") \/ At("add_rpath"))
    => /\ \E t \in 1..Len(targets) :
             /\ Under(Step.binary, Join(BuildPath, targets[t]))
             /\ Step.binary \in DOMAIN fs
                   => Architectures(fs[Step.binary]) = << Arch(targets[t]) >>
       /\ ~Under(Step.binary, universal_dir(BuildPath))
       /\ ~UnderSomePrefix(Step.binary)

\* an rpath edit is about to be made while merged and installed files exist
C15_Witness ==
    /\ At("add_rpath")
    /\ Len(targets) = 2
    /\ Step.binary \in DOMAIN fs
    /\ \E q \in DOMAIN fs : Under(q, universal_dir(BuildPath))
    /\ \E q \in DOMAIN fs : UnderSomePrefix(q) /\ fs[q].kind = "macho"

\* the library merges of install_libraries
LibraryMerge ==
    At("lipo") /\ Under(Step.output, Join(universal_dir(BuildPath), <<"lib">>))

IsSharedLibrary(path) == path[Len(path)] = shared_lib_ext[1]

\* an rpath edit of binary is among the calls made so far
FixedUp(binary) ==
    \E j \in 1..(ip - 1) : RpathEdit(ThePlan[j]) /\ ThePlan[j].binary = binary

(* C16: when install_libraries is about to merge a library, each of its    *)
(* per-target inputs has had an rpath edit applied if it is a shared       *)
(* library, and none if it is a static library.                            *)
C16_SharedLibrariesFixedUp ==
    LibraryMerge
    => \A i \in 1..Len(Step.inputs) :
          IsSharedLibrary(Step.inputs[i]) <=> FixedUp(Step.inputs[i])

(* C17: the output of every merge is a file of the universal staging       *)
(* directory below the build path and not a path below an install prefix;  *)
(* and whatever happens when a merge is due (lipo succeeds, lipo fails, or *)
(* the process is killed with lipo's output half written), the files below *)
(* the install prefixes are left as they were.                             *)
C17_MergeLeavesPrefixesAlone ==
    [][ At("lipo")
        => /\ Under(Step.output, universal_dir(BuildPath))
           /\ ~UnderSomePrefix(Step.output)
           /\ PrefixTree(fs') = PrefixTree(fs) ]_vars

\* the process was killed during a merge, after files had been installed
C17_Witness ==
    /\ pc = "exited" /\ exit = Terminated.exit
    /\ ip >= 1 /\ ip <= Len(ThePlan)
    /\ ThePlan[ip].op = "lipo"
    /\ ThePlan[ip].output \in DOMAIN fs
    /\ fs[ThePlan[ip].output].kind = "truncated"
    /\ \E q \in DOMAIN fs : UnderSomePrefix(q) /\ fs[q].kind = "macho"

\* the file system a step leaves when it succeeds
Effect(f, step, a) ==
    CASE step.op = "touch" -> WriteFile(f, step.path, [kind |-> "empty"])
      [] step.op = "ninja" ->
            WriteAll(NinjaOutput(step.cwd, step.source_path, step.swift_flags,
                                 a.fresh_rpaths), f)
      [] step.op = "delete_rpath" ->
            install_name_tool(f, "-delete_rpath", step.rpath, step.binary).fs
      [] step.op = "add_rpath" ->
            install_name_tool(f, "-add_rpath", step.rpath, step.binary).fs
      [] step.op = "lipo" -> WriteFile(f, step.output, LipoOutput(f, step.inputs))
      [] step.op = "rsync" ->
            WriteFile(f, RsyncDestination(step.src, step.dst), f[step.src])
      [] step.op = "rename" ->
            WriteFile(RemoveTree(f, step.src), step.dst, f[step.src])
      [] step.op = "rmtree" -> RemoveTree(f, step.path)
      [] step.op = "copytree" -> WriteAll(f, CopiedTree(f, step.src, step.dst))
      [] OTHER -> f

\* the file system the steps first..last of a plan leave when all succeed
RECURSIVE Run(_, _, _, _, _)
Run(f, plan, first, last, a) ==
    IF first > last THEN f
    ELSE IF first = last THEN <<>> @@ Effect(f, plan[first], a)
    ELSE LET mid == (first + last) \div 2
             g == Run(f, plan, first, mid, a)
         IN  \* the first half is evaluated before the second half is entered
             IF DOMAIN g = {} THEN Run(<<>>, plan, mid + 1, last, a)
             ELSE Run(g, plan, mid + 1, last, a)

\* for every macOS install that is run again: the file system one run that
\* nothing interrupts and in which no tool fails leaves behind
UninterruptedTree ==
    LET lines == {a \in ReinvokedCommandLines : UsesCMake(a)}
    IN  <<>> @@ [a \in lines |->
                   LET plan == PlanTable[main_outcome(parse_args(a)).args]
                   IN  Run(InitialTree(a), plan, 1, Len(plan), a)]

(* C18: whenever a macOS install comes to its end with status 0, be it the *)
(* first invocation or one that follows an invocation that was killed      *)
(* between two steps (or in a merge), that failed, or that had completed,  *)
(* the file system, and with it the install tree and the rpaths of every   *)
(* binary, is the one a single uninterrupted run leaves.                   *)
C18_ReinvocationConverges ==
    InstallDone => fs = UninterruptedTree[argv]

\* an install was killed between the copy and the rename of a module file,
\* run again, and has come to its end
C18_Witness ==
    /\ InstallDone
    /\ Len(earlier) = 1
    /\ ~earlier[1].completed
    /\ \E q \in DOMAIN earlier[1].fs :
          /\ \E module \in InstalledModules :
                q = Join(ModuleDir(args.install_prefixes[1], module),
                         module \o <<".swiftmodule">>)
          /\ q \notin DOMAIN fs

(* C19: in every run that was accepted and has started its steps, the      *)
(* target list holds no target more than once.                             *)
C19_NoDuplicateTargets ==
    Dispatched => DistinctTargets

\* the rpath entries of all slices of a linked file
AllRpaths(file) ==
    UNION { Range(file.slices[i].rpaths) : i \in 1..Len(file.slices) }

(* C20: when a macOS install has come to its end with status 0, no linked  *)
(* file below an install prefix, executable or shared library, has in any  *)
(* slice an rpath entry below the build path, whichever entries the linker *)
(* gave the built binaries.                                                *)
C20_NoBuildPathRpathInstalled ==
    InstallDone
    => \A q \in DOMAIN fs :
          (UnderSomePrefix(q) /\ fs[q].kind = "macho")
          => \A r \in AllRpaths(fs[q]) : ~Under(r, BuildPath)

\* the copy of a merged file out of the universal staging directory
CopyOfMerged(step) ==
    step.op = "rsync" /\ Under(step.src, universal_dir(BuildPath))

(* C21: in a macOS install, a copy out of the universal staging directory   *)
(* is reached only directly after the merge that wrote the copied file, and *)
(* the merged file is then there; no prefix holds a file whose copy has not *)
(* been made yet; and when a merge fails, the run ends there with status 1  *)
(* and the copy that follows the merge in the plan has not written the file *)
(* into the prefix.                                                         *)
C21_CopyFollowsSuccessfulMerge ==
    (MacInstall /\ Dispatched)
    => /\ (At("rsync") /\ CopyOfMerged(Step))
          => /\ ip > 1
             /\ ThePlan[ip - 1].op = "lipo"
             /\ ThePlan[ip - 1].output = Step.src
             /\ Step.src \in DOMAIN fs
             /\ fs[Step.src].slices = InputSlices(fs, ThePlan[ip - 1].inputs)
       /\ \A k \in ip..Len(ThePlan) :
             CopyOfMerged(ThePlan[k])
             => RsyncDestination(ThePlan[k].src, ThePlan[k].dst) \notin DOMAIN fs
       /\ (FailedAtStep /\ Step.op = "lipo")
          => /\ exit = 1 /\ returncode # 0
             /\ CopyOfMerged(ThePlan[ip + 1])
             /\ ThePlan[ip + 1].src = Step.output
             /\ RsyncDestination(Step.output, ThePlan[ip + 1].dst) \notin DOMAIN fs

\* the merge of a library failed after an executable had been installed
C21_Witness ==
    /\ MacInstall /\ FailedAtStep /\ Step.op = "lipo"
    /\ IsSharedLibrary(Step.output)
    /\ \E q \in InstalledExecutables : q \in DOMAIN fs

\* the number of cmake configure calls among the first k - 1 steps
ConfiguredBefore(k) == Cardinality({j \in 1..(k - 1) : ThePlan[j].op = "cmake"})

\* the target the configure call at step k belongs to: four components are
\* configured per target
TargetOfStep(k) == targets[(ConfiguredBefore(k) \div 4) + 1]

\* the entries of a flag list that begin with the given option
FlagsOf(flags, option) == {i \in 1..Len(flags) : flags[i][1] = option}

(* C22: when a cmake configure call is about to be made, its Swift flags    *)
(* hold exactly one '-target' entry, that of the target being built,        *)
(* exactly one module-cache entry, <build path>/module-cache, at most one   *)
(* '-sdk' entry (one if there is a sysroot, none otherwise) and no flag     *)
(* twice: nothing a build step appended for an earlier target or component  *)
(* is in the list.                                                          *)
C22_SwiftFlagsPerBuild ==
    At("cmake")
    => LET flags == Step.swift_flags
       IN  /\ \E i \in 1..Len(flags) :
                /\ FlagsOf(flags, "-target ") = {i}
                /\ flags[i] = <<"-target ">> \o TargetOfStep(ip)
           /\ \E i \in 1..Len(flags) :
                /\ FlagsOf(flags, "-module-cache-path ") = {i}
                /\ flags[i] = <<"-module-cache-path ">>
                                  \o Join(BuildPath, <<"module-cache">>)
           /\ Cardinality(FlagsOf(flags, "-sdk ")) =
                 (IF args.sysroot # None THEN 1 ELSE 0)
           /\ \A i, j \in 1..Len(flags) : flags[i] = flags[j] => i = j

\* the driver of the second of two targets is about to be configured in a
\* build with the address sanitizer
C22_Witness ==
    /\ At("cmake")
    /\ args.enable_asan
    /\ Len(targets) = 2
    /\ ConfiguredBefore(ip) = 7
    /\ <<"-sanitize=address">> \in Range(Step.swift_flags)

\* an install on a build target that is not macOS
NonDarwinInstall == args.action = "install" /\ Dispatched /\ ~MacOSBuildTarget

\* the files below the install prefixes
Installed == {q \in DOMAIN fs : UnderSomePrefix(q)}

\* the run asks the package tool for its output directory, builds the
\* package once and then copies the executables exes, for each prefix in
\* turn, from that directory into <prefix>/bin, and does nothing else; when
\* it has come to its end with status 0 the prefixes hold those copies and
\* no other file
CopiesFromPackageBuild(exes) ==
    LET n == Len(exes)
        prefixes == args.install_prefixes
        bin(i) == Join(prefixes[i], <<"bin">>)
    IN  /\ Len(ThePlan) = 2 + Len(prefixes) * n
        /\ ThePlan[1].op = "swiftpm_bin_path"
        /\ ThePlan[2].op = "swiftpm" /\ ThePlan[2].action = "build"
        /\ \A i \in 1..Len(prefixes), j \in 1..n :
              ThePlan[2 + (i - 1) * n + j] =
                 [op |-> "rsync", src |-> Join(ShowBinPath(args), exes[j]),
                  dst |-> bin(i)]
        /\ (Completed /\ exit = 0)
           => /\ Installed = {Join(bin(i), exes[j]) : i \in 1..Len(prefixes), j \in 1..n}
              /\ \A i \in 1..Len(prefixes), j \in 1..n :
                    fs[Join(bin(i), exes[j])] = fs[Join(ShowBinPath(args), exes[j])]

Clean == args.action = "clean" /\ Dispatched

(* C24: a clean makes one call, the removal of the build path; when it has  *)
(* come to its end, with status 0, nothing is left at or below the build    *)
(* path, and at every moment of the run every file outside the build path,  *)
(* the files below the install prefixes among them, is as the run found it. *)
C24_CleanRemovesBuildPathOnly ==
    Clean
    => /\ ThePlan = << [op |-> "rmtree", path |-> BuildPath] >>
       /\ Completed => /\ exit = 0
                       /\ ~Exists(fs, BuildPath)
       /\ RemoveTree(fs, BuildPath) = RemoveTree(InitialTree(argv), BuildPath)
       /\ PrefixTree(fs) = PrefixTree(InitialTree(argv))

\* a clean that found a build tree and an installed include tree has come
\* to its end
C24_Witness ==
    /\ Clean /\ Completed
    /\ Exists(InitialTree(argv), BuildPath)
    /\ Installed # {}

----------------------------------------------------------------------------
(* build-script.py: the second script of the package.  One invocation      *)
(* parses its command line and then installs, generates an Xcode project,  *)
(* or builds and tests.  Every command it runs is one step and is logged   *)
(* in calls with its exit status.                                          *)

BuildDir   == <<"/products">>
InstallDir == <<"/install">>
PACKAGE_DIR == PackagePath

\* the command lines of build-script.py, and what the invocation finds:
\* built says that <build-dir>/<configuration>/swift-driver exists, occupied
\* that <install-dir>/swift-driver is a directory
BuildScriptArgs ==
    [ install            : BOOLEAN,
      install_dir        : {None, InstallDir},
      build_dir          : {None, BuildDir},
      release            : BOOLEAN,
      generate_xcodeproj : BOOLEAN,
      test               : BOOLEAN,
      built              : BOOLEAN,
      occupied           : BOOLEAN ]

\* lines 199: the namespace parse_args returns
build_script_parse_args(a) ==
    [ install |-> a.install, install_dir |-> a.install_dir,
      build_dir |-> a.build_dir, release |-> a.release,
      generate_xcodeproj |-> a.generate_xcodeproj, test |-> a.test ]

\* lines 206-210: the directory the driver is copied from
install_build_dir(a) ==
    IF a.release THEN a.build_dir \o <<"/", "release">>
    ELSE a.build_dir \o <<"/", "debug">>

\* lines 139-141 and 133: the rsync command of install()
check_and_sync_cmd(build_dir, install_dir) ==
    [tool |-> "rsync", file_path |-> build_dir \o <<"/", "swift-driver">>,
     install_path |-> install_dir \o <<"/", "swift-driver">>]

\* where 'swift build' puts its products: --build-path, or .build in the package
ProductsDir(a) ==
    (IF a.build_dir = None THEN PACKAGE_DIR \o <<"/", ".build">> ELSE a.build_dir)
    \o <<"/">> \o (IF a.release THEN <<"release">> ELSE <<"debug">>)

\* the file system the invocation finds
BuildScriptTree(a) ==
    LET products == IF a.built
                    THEN [q \in {ProductsDir(a) \o <<"/", "swift-driver">>} |->
                             Image(<<"x86_64">>, <<>>)]
                    ELSE <<>>
        dir == IF a.occupied
               THEN [q \in {InstallDir \o <<"/", "swift-driver", "/", "README">>} |->
                        [kind |-> "text"]]
               ELSE <<>>
    IN  WriteAll(WriteAll(SourceTree, products), dir)

\* rsync -a <file> <path>: into the directory if path is one, else onto path
RsyncTarget(f, file_path, install_path) ==
    IF \E q \in DOMAIN f : Under(q, install_path)
    THEN Join(install_path, Basename(file_path))
    ELSE install_path

\* lines 35-37
fatal_error(message) == [exit |-> 1, report |-> message]

BuildScriptInit ==
    /\ argv \in BuildScriptArgs
    /\ args = build_script_parse_args(argv)
    /\ targets = <<>>
    /\ env = {}
    /\ pc = "build-script"
    /\ ip = 0
    /\ exit = Running
    /\ report = <<>>
    /\ returncode = 0
    /\ fs = BuildScriptTree(argv)
    /\ earlier = <<>>
    /\ calls = <<>>

BuildScriptFrame == UNCHANGED <<argv, args, targets, env, earlier>>

\* lines 199-216: main() up to the first command
build_script_main ==
    /\ pc = "build-script"
    /\ IF args.install
       THEN IF args.install_dir = None
            THEN Stop(fatal_error(<<"Must specify directory to install">>))
            ELSE IF args.build_dir = None
            THEN Stop(fatal_error(<<"Must specify build directory to copy from">>))
            ELSE pc' = "check_and_sync" /\ UNCHANGED <<ip, exit, report>>
       ELSE IF args.generate_xcodeproj
       THEN pc' = "xcode_gen" /\ UNCHANGED <<ip, exit, report>>
       ELSE pc' = "Builder.build" /\ UNCHANGED <<ip, exit, report>>
    /\ UNCHANGED <<returncode, fs, calls>>
    /\ BuildScriptFrame

\* a copy whose exit status is read but never raised
check_and_sync_unchecked ==
    /\ pc = "check_and_sync"
    /\ LET cmd == check_and_sync_cmd(install_build_dir(args), args.install_dir)
       IN  \E rc \in ReturnCodes(cmd.file_path \in DOMAIN fs) :
             /\ returncode' = rc
             /\ calls' = Append(calls, [cmd |-> cmd, returncode |-> rc])
             /\ fs' = IF rc = 0
                      THEN WriteFile(fs, RsyncTarget(fs, cmd.file_path, cmd.install_path),
                                     fs[cmd.file_path])
                      ELSE fs
             /\ Stop(SysExit(0, <<"installing">>))
    /\ BuildScriptFrame

\* lines 211-212, 132-141: install() runs rsync through subprocess.check_call,
\* which returns 0 or raises; then sys.exit(0)
check_and_sync ==
    /\ pc = "check_and_sync"
    /\ LET cmd == check_and_sync_cmd(install_build_dir(args), args.install_dir)
       IN  \E rc \in ReturnCodes(cmd.file_path \in DOMAIN fs) :
             /\ returncode' = rc
             /\ calls' = Append(calls, [cmd |-> cmd, returncode |-> rc])
             /\ fs' = IF rc = 0
                      THEN WriteFile(fs, RsyncTarget(fs, cmd.file_path, cmd.install_path),
                                     fs[cmd.file_path])
                      ELSE fs
             /\ IF check_call(rc).exit = Running
                THEN Stop(SysExit(0, <<"installing">>))
                ELSE Stop(check_call(rc))
    /\ BuildScriptFrame

\* lines 214-216, 18-24
xcode_gen ==
    /\ pc = "xcode_gen"
    /\ \E rc \in ReturnCodes(TRUE) :
          /\ returncode' = rc
          /\ calls' = Append(calls, [cmd |-> [tool |-> "swift package generate-xcodeproj"],
                                     returncode |-> rc])
          /\ IF check_call(rc).exit = Running
             THEN Stop(SysExit(0, <<>>))
             ELSE Stop(check_call(rc))
    /\ UNCHANGED fs
    /\ BuildScriptFrame

\* lines 218-233, 99-108: the build of the product swift-driver; a failure
\* is caught and reported, and after a success main() goes on to the tests
\* or returns
builder_build ==
    /\ pc = "Builder.build"
    /\ \E rc \in ReturnCodes(TRUE) :
          /\ returncode' = rc
          /\ calls' = Append(calls, [cmd |-> [tool |-> "swift build",
                                              product |-> <<"swift-driver">>],
                                     returncode |-> rc])
          /\ fs' = IF rc = 0
                   THEN WriteFile(fs, ProductsDir(args) \o <<"/", "swift-driver">>,
                                  Image(<<"x86_64">>, <<>>))
                   ELSE fs
          /\ IF rc # 0
             THEN Stop(SysExit(1, <<"FAIL: Building SwiftSyntax failed">>))
             ELSE IF args.test
             THEN pc' = "run_tests" /\ UNCHANGED <<ip, exit, report>>
             ELSE Stop([exit |-> 0, report |-> <<>>])
    /\ BuildScriptFrame

\* lines 234-240: the call names run_tests, which the script does not define
\* (the function of lines 113-130 is run_xctests); the NameError is not a
\* CalledProcessError, so the handler of line 247 does not catch it
run_tests ==
    /\ pc = "run_tests"
    /\ Stop(Uncaught("NameError"))
    /\ UNCHANGED <<returncode, fs, calls>>
    /\ BuildScriptFrame

BuildScriptNext ==
    \/ build_script_main
    \/ check_and_sync
    \/ xcode_gen
    \/ builder_build
    \/ run_tests

BuildScript == BuildScriptInit /\ [][BuildScriptNext]_vars

\* build-script.py has ended
BuildScriptExited == pc = "exited" /\ argv \in BuildScriptArgs

\* the commands of the log that ran the given tool
CallsOf(tool) == {i \in 1..Len(calls) : calls[i].cmd.tool = tool}

\* the invocation built swift-driver and was asked to test
BuiltForTest ==
    /\ BuildScriptExited /\ args.test
    /\ CallsOf("swift build") # {}

(* C25: when build-script.py was given --test and has ended after it ran    *)
(* the build: if the build failed, the status is 1 and no test was run; if  *)
(* the build succeeded, the test suite was run exactly once, after the      *)
(* build, and the status is 0 if the test run succeeded and 1 if it failed. *)
C25_TestsRunOnceAfterBuild ==
    BuiltForTest
    => IF calls[1].returncode # 0
       THEN exit = 1 /\ CallsOf("swift test") = {}
       ELSE /\ CallsOf("swift test") = {2}
            /\ exit = (IF calls[2].returncode = 0 THEN 0 ELSE 1)

\* build-script.py was given --install and has ended
InstallRequested == BuildScriptExited /\ args.install

\* the one copy an install makes
TheCopy == check_and_sync_cmd(install_build_dir(args), args.install_dir)

\* the install stopped before it ran any command, with status 1, for want
\* of --install-dir or --build-dir
StoppedForMissingDirectory ==
    /\ args.install_dir = None \/ args.build_dir = None
    /\ exit = 1
    /\ calls = <<>>
    /\ fs = BuildScriptTree(argv)

(* C26 as stated: an install without --install-dir or --build-dir ends with *)
(* status 1 and has copied nothing; any other install has run exactly one   *)
(* command, the copy of <build-dir>/release/swift-driver (with --release)   *)
(* or <build-dir>/debug/swift-driver to <install-dir>/swift-driver, and     *)
(* ends with status 0.                                                      *)
C26_InstallCopiesOnceAndExits0 ==
    InstallRequested
    => \/ StoppedForMissingDirectory
       \/ /\ args.install_dir # None /\ args.build_dir # None
          /\ Len(calls) = 1 /\ calls[1].cmd = TheCopy
          /\ TheCopy.file_path =
                args.build_dir
                \o (IF args.release THEN <<"/", "release">> ELSE <<"/", "debug">>)
                \o <<"/", "swift-driver">>
          /\ TheCopy.install_path = args.install_dir \o <<"/", "swift-driver">>
          /\ exit = 0

(* C26, amended: an install without --install-dir or --build-dir ends with  *)
(* status 1 and has copied nothing; any other install has run exactly one   *)
(* command, the copy of <build-dir>/release/swift-driver (with --release)   *)
(* or <build-dir>/debug/swift-driver to <install-dir>/swift-driver, no      *)
(* build and no test, and ends with status 0 if the copy succeeded, the     *)
(* driver then being installed, and with status 1 if the copy failed,       *)
(* nothing then being changed.                                              *)
C26_InstallCopiesOnce ==
    InstallRequested
    => \/ StoppedForMissingDirectory
       \/ /\ args.install_dir # None /\ args.build_dir # None
          /\ Len(calls) = 1 /\ calls[1].cmd = TheCopy
          /\ TheCopy.file_path =
                args.build_dir
                \o (IF args.release THEN <<"/", "release">> ELSE <<"/", "debug">>)
                \o <<"/", "swift-driver">>
          /\ TheCopy.install_path = args.install_dir \o <<"/", "swift-driver">>
          /\ IF calls[1].returncode = 0
             THEN /\ exit = 0
                  /\ \E q \in {TheCopy.install_path,
                               Join(TheCopy.install_path, <<"swift-driver">>)} :
                        fs = WriteFile(BuildScriptTree(argv), q,
                                       BuildScriptTree(argv)[TheCopy.file_path])
             ELSE exit = 1 /\ fs = BuildScriptTree(argv)

\* a release install that copied the driver and ended with status 0
C26_Witness ==
    /\ InstallRequested /\ args.release
    /\ Len(calls) = 1 /\ calls[1].returncode = 0
    /\ exit = 0
    /\ InstallDir \o <<"/", "swift-driver">> \in DOMAIN fs

(* C27: in a macOS install, whenever an rpath edit, a merge or the copy of  *)
(* a module file is about to run, every per-target file it reads is there,  *)
(* below <build path>/<target>/, and is what the build of that target made: *)
(* an image of the target's architecture, or the target's module file.      *)
C27_InstallReadsWhatWasBuilt ==
    (MacInstall /\ pc = "run" /\ ip <= Len(ThePlan))
    => /\ RpathEdit(Step)
          => /\ Step.binary \in DOMAIN fs
             /\ \E i \in 1..Len(targets) :
                   /\ Under(Step.binary, Join(BuildPath, targets[i]))
                   /\ \A s \in Range(fs[Step.binary].slices) : s.arch = Arch(targets[i])
       /\ Step.op = "lipo"
          => /\ Len(Step.inputs) = Len(targets)
             /\ \A i \in 1..Len(targets) :
                   /\ Step.inputs[i] \in DOMAIN fs
                   /\ Under(Step.inputs[i], Join(BuildPath, targets[i]))
                   /\ \A s \in Range(fs[Step.inputs[i]].slices) : s.arch = Arch(targets[i])
       /\ (Step.op = "rsync" /\ ~CopyOfMerged(Step))
          => /\ Step.src \in DOMAIN fs
             /\ \E i \in 1..Len(targets) :
                   /\ Under(Step.src, Join(BuildPath, targets[i]))
                   /\ fs[Step.src].kind = "module"
                   /\ fs[Step.src].target = targets[i]

\* the merges among the first k - 1 steps
MergesBefore(k) == {j \in 1..(k - 1) : ThePlan[j].op = "lipo"}

(* C28: in a macOS install, an rpath edit that is about to run names a      *)
(* binary that no merge made so far has read, and a merge that is about to  *)
(* run writes an output that no merge made so far has written.              *)
C28_EditsBeforeMergesAndOneMerge ==
    (MacInstall /\ pc = "run" /\ ip <= Len(ThePlan))
    => /\ RpathEdit(Step)
          => \A j \in MergesBefore(ip) : Step.binary \notin Range(ThePlan[j].inputs)
       /\ Step.op = "lipo"
          => \A j \in MergesBefore(ip) : ThePlan[j].output # Step.output

\* the step before this one was the last of an install_module call: the
\* rename of the .swiftdoc file of the last target
ModuleInstalled ==
    /\ MacInstall /\ Dispatched /\ ip > 1
    /\ ThePlan[ip - 1].op = "rename"
    /\ Basename(ThePlan[ip - 1].dst) = targets[Len(targets)] \o <<".swiftdoc">>

(* C29: when an install_module call has just completed, in a first or in a  *)
(* repeated run, its module directory holds for every target of the list    *)
(* the files <target>.swiftmodule and <target>.swiftdoc, each with the      *)
(* content the build of that target made for the module, and no file under  *)
(* the module's generic name.                                               *)
C29_ModuleContentPerTarget ==
    ModuleInstalled
    => LET dir == Dirname(ThePlan[ip - 1].dst)
           module_name == << Basename(ThePlan[ip - 1].src)[1] >>
       IN  \A e \in 1..Len(module_fileexts) :
              /\ Join(dir, module_name \o module_fileexts[e]) \notin DOMAIN fs
              /\ \A t \in 1..Len(targets) :
                    LET q == Join(dir, targets[t] \o module_fileexts[e])
                    IN  /\ q \in DOMAIN fs
                        /\ fs[q] = ModuleFile(module_name \o module_fileexts[e], targets[t])

\* in a repeated run for two targets an install_module call has completed
C29_Witness ==
    /\ ModuleInstalled
    /\ pc = "run"
    /\ Len(earlier) = 1
    /\ Len(targets) = 2

\* the triples <arch>-apple-macosx10.15
MacOSTriples ==
    { X86Mac \o macos_deployment_target, Arm64Mac \o macos_deployment_target }

(* C30: in an install on a macOS build target, every target of the list is  *)
(* a triple <arch>-apple-macosx10.15; so is the target a build that is      *)
(* about to run was configured for, and every input of a merge that is      *)
(* about to run lies below the directory of such a triple.                  *)
C30_TargetsAreMacOSTriples ==
    (MacInstall /\ Dispatched)
    => /\ \A i \in 1..Len(targets) : targets[i] \in MacOSTriples
       /\ At("ninja") => ConfiguredTarget(Step.swift_flags) \in MacOSTriples
       /\ At("lipo")
          => \A i \in 1..Len(Step.inputs) :
                \E t \in MacOSTriples : Under(Step.inputs[i], Join(BuildPath, t))

====
